---- MODULE Spec2Model ----
(***************************************************************************)
(* In-memory repositories of sistema_libros_funcional_go                   *)
(* (internal/infrastructure/db) with the domain constructors they are fed  *)
(* from (internal/domain).                                                 *)
(*                                                                         *)
(* The repository holds two versions of the db package and two versions of *)
(* the domain package; repoV and domainV select the build that is running: *)
(*   repoV   = 1 : part_005 lines 1-285     repoV   = 2 : lines 287-605     *)
(*   domainV = 1 : internal/domain/models.go  domainV = 2 : part_004        *)
(*                                                                         *)
(* The three repositories are separate structs with a mutex each and share *)
(* no state; a run of the repository-level specifications calls one of     *)
(* them, named by driven, and leaves the other two empty.                   *)
(*                                                                         *)
(* Entities are Go pointers: the maps hold references into a heap, and the *)
(* caller of Create keeps the reference it passed.  A reference is named   *)
(* after where the object is held: the smallest key it is stored under,    *)
(* or, for an object no map holds, minus the smallest caller holding it.   *)
(* Strings are sequences of one-character strings, so that ToLower,        *)
(* TrimSpace and Contains are computed and not assumed.                    *)
(***************************************************************************)
EXTENDS Integers, Sequences, FiniteSets, TLC

\* ------------------------------------------------------------- bounds
NumProcs == 2
MaxSeq == 2
MaxUpdated == 1

Procs == 1..NumProcs
NilRef == 0
NilErr == "nil"

VARIABLES
  domainV,     \* which domain package is compiled in
  repoV,       \* which db package is compiled in
  driven,      \* which repository the callers of this run call
  userSeq,     \* InMemoryUserRepo.seq
  users,       \* InMemoryUserRepo.users : UserID -> *User
  emailIndex,  \* InMemoryUserRepo.emailIndex : string -> UserID
  userHeap,    \* the User objects the pointers refer to
  bookSeq,     \* InMemoryBookRepo.seq
  books,       \* InMemoryBookRepo.books : BookID -> *Book
  bookHeap,    \* the Book objects
  eventSeq,    \* InMemoryAccessLogRepo.seq
  events,      \* InMemoryAccessLogRepo.events : AccessEventID -> *AccessEvent
  eventHeap,   \* the AccessEvent objects
  mu,          \* the sync.RWMutex of each repository
  pc,          \* per caller: "idle" (outside any call) or "cs" (holding the lock)
  call,        \* per caller: the call in progress, or the last one made
  ret,         \* per caller: what the last call returned
  createLog,   \* history: per repository, the Create calls in write-lock order
  lastUpdate,  \* history: per repository and identifier, the caller whose
               \* Update of it took the write lock last
  cli          \* the terminal program: its variant, its slices users, books
               \* and accessEvents, and the last message it printed

userVars == <<userSeq, users, emailIndex, userHeap>>
bookVars == <<bookSeq, books, bookHeap>>
eventVars == <<eventSeq, events, eventHeap>>

\* What no repository operation changes: the build, the repository driven and
\* the state of the terminal program, which is a program of its own.
config == <<domainV, repoV, driven, cli>>

vars == <<config, userVars, bookVars, eventVars,
          mu, pc, call, ret, createLog, lastUpdate>>

\* ------------------------------------------------------------ strings
UpperCase ==
  <<"A", "B", "C", "D", "E", "F", "G", "H", "I", "J", "K", "L", "M",
    "N", "O", "P", "Q", "R", "S", "T", "U", "V", "W", "X", "Y", "Z">>
LowerCase ==
  <<"a", "b", "c", "d", "e", "f", "g", "h", "i", "j", "k", "l", "m",
    "n", "o", "p", "q", "r", "s", "t", "u", "v", "w", "x", "y", "z">>

LowerCh(c) ==
  IF \E i \in 1..Len(UpperCase) : UpperCase[i] = c
    THEN LowerCase[CHOOSE i \in 1..Len(UpperCase) : UpperCase[i] = c]
    ELSE c

ToLower(s) == [i \in 1..Len(s) |-> LowerCh(s[i])]

UpperCh(c) ==
  IF \E i \in 1..Len(LowerCase) : LowerCase[i] = c
    THEN UpperCase[CHOOSE i \in 1..Len(LowerCase) : LowerCase[i] = c]
    ELSE c

ToUpper(s) == [i \in 1..Len(s) |-> UpperCh(s[i])]

RECURSIVE TrimLeft(_)
TrimLeft(s) ==
  IF s = <<>> THEN s
  ELSE IF Head(s) = " " THEN TrimLeft(Tail(s)) ELSE s

RECURSIVE TrimRight(_)
TrimRight(s) ==
  IF s = <<>> THEN s
  ELSE IF s[Len(s)] = " " THEN TrimRight(SubSeq(s, 1, Len(s) - 1)) ELSE s

TrimSpace(s) == TrimRight(TrimLeft(s))

Contains(s, sub) ==
  \E i \in 0..(Len(s) - Len(sub)) : SubSeq(s, i + 1, i + Len(sub)) = sub

\* A comparison that tells upper case from lower case.
EqualFold_exact(s, t) == s = t

EqualFold(s, t) == ToLower(s) = ToLower(t)

\* ------------------------------------------------------------- domain
allowedRoles ==
  IF domainV = 1 THEN {"ADMIN", "READER"}
  ELSE {"ADMIN", "CONSULTOR_TI", "SOLO_LECTURA"}

isValidRole(r) == r \in allowedRoles

NoUser == [id |-> 0, name |-> <<>>, email |-> <<>>, role |-> "", active |-> FALSE]

\* NewUser returns (*User, error).
NewUserV1(name, email, role) ==
  IF TrimSpace(name) = <<>>
    THEN [user |-> NoUser, err |-> "el nombre no puede estar vacio"]
  ELSE IF TrimSpace(email) = <<>>
    THEN [user |-> NoUser, err |-> "el email no puede estar vacio"]
  ELSE IF ~isValidRole(role)
    THEN [user |-> NoUser, err |-> "rol no valido"]
  ELSE [user |-> [id |-> 0, name |-> name, email |-> email, role |-> role,
                  active |-> TRUE],
        err |-> NilErr]

NewUserV2(name, email, role) ==
  LET n == TrimSpace(name)
      e == TrimSpace(ToLower(email))
  IN IF n = <<>>
       THEN [user |-> NoUser, err |-> "el nombre no puede estar vacio"]
     ELSE IF ~Contains(e, <<"@">>)
       THEN [user |-> NoUser, err |-> "el email no es valido"]
     ELSE IF ~isValidRole(role)
       THEN [user |-> NoUser, err |-> "el rol indicado no es valido"]
     ELSE [user |-> [id |-> 0, name |-> n, email |-> e, role |-> role,
                     active |-> TRUE],
           err |-> NilErr]

NewUser(name, email, role) ==
  IF domainV = 1 THEN NewUserV1(name, email, role)
  ELSE NewUserV2(name, email, role)

\* User.SetID
\* A SetID that leaves the identifier as it was.
UserSetID_noop(u, id) == u

UserSetID(u, id) == [u EXCEPT !.id = id]

NoBook == [id |-> 0, title |-> <<>>, author |-> <<>>, year |-> 0, isbn |-> <<>>,
           categoryTI |-> <<>>, tags |-> <<>>, active |-> FALSE]

\* NewBook of models.go: five checks, the fields are kept as given.
NewBookV1(title, author, year, isbn, categoryTI, tags) ==
  IF TrimSpace(title) = <<>>
    THEN [book |-> NoBook, err |-> "el titulo no puede estar vacio"]
  ELSE IF TrimSpace(author) = <<>>
    THEN [book |-> NoBook, err |-> "el autor no puede estar vacio"]
  ELSE IF year <= 0
    THEN [book |-> NoBook, err |-> "el anio debe ser mayor que cero"]
  ELSE IF TrimSpace(isbn) = <<>>
    THEN [book |-> NoBook, err |-> "el ISBN no puede estar vacio"]
  ELSE IF TrimSpace(categoryTI) = <<>>
    THEN [book |-> NoBook, err |-> "la categoria TI no puede estar vacia"]
  ELSE [book |-> [id |-> 0, title |-> title, author |-> author, year |-> year,
                  isbn |-> isbn, categoryTI |-> categoryTI, tags |-> tags,
                  active |-> TRUE],
        err |-> NilErr]

\* The tag loop of the second NewBook: lower-case, trim, drop the empty ones.
RECURSIVE NormalizeTags(_)
NormalizeTags(tags) ==
  IF tags = <<>> THEN <<>>
  ELSE LET t == ToLower(TrimSpace(Head(tags)))
       IN IF t # <<>> THEN <<t>> \o NormalizeTags(Tail(tags))
          ELSE NormalizeTags(Tail(tags))

\* NewBook of the second domain package: fields trimmed, three checks.
NewBookV2(title, author, year, isbn, categoryTI, tags) ==
  IF TrimSpace(title) = <<>>
    THEN [book |-> NoBook, err |-> "el titulo no puede estar vacio"]
  ELSE IF TrimSpace(author) = <<>>
    THEN [book |-> NoBook, err |-> "el autor no puede estar vacio"]
  ELSE IF year <= 0
    THEN [book |-> NoBook, err |-> "el anio debe ser mayor que cero"]
  ELSE [book |-> [id |-> 0, title |-> TrimSpace(title),
                  author |-> TrimSpace(author), year |-> year,
                  isbn |-> TrimSpace(isbn), categoryTI |-> TrimSpace(categoryTI),
                  tags |-> NormalizeTags(tags), active |-> TRUE],
        err |-> NilErr]

NewBook(title, author, year, isbn, categoryTI, tags) ==
  IF domainV = 1 THEN NewBookV1(title, author, year, isbn, categoryTI, tags)
  ELSE NewBookV2(title, author, year, isbn, categoryTI, tags)

\* Book.SetID
BookSetID(b, id) == [b EXCEPT !.id = id]

NoEvent == [id |-> 0, bookID |-> 0, userID |-> 0, accessType |-> ""]

\* NewAccessEvent: only models.go rejects the empty access type.
NewAccessEvent(bookID, userID, accessType) ==
  IF bookID <= 0
    THEN [event |-> NoEvent, err |-> "bookID debe ser mayor que cero"]
  ELSE IF userID <= 0
    THEN [event |-> NoEvent, err |-> "userID debe ser mayor que cero"]
  ELSE IF domainV = 1 /\ accessType = ""
    THEN [event |-> NoEvent, err |-> "el tipo de acceso no puede estar vacio"]
  ELSE [event |-> [id |-> 0, bookID |-> bookID, userID |-> userID,
                   accessType |-> accessType],
        err |-> NilErr]

\* AccessEvent.SetID
EventSetID(e, id) == [e EXCEPT !.id = id]

\* ---------------------------------------------------------- go maps
\* m[k] = v on a Go map
MapSet(m, k, v) == (k :> v) @@ m
\* delete(m, k)
MapDelete(m, k) == [x \in DOMAIN m \ {k} |-> m[x]]
MapValues(m) == {m[k] : k \in DOMAIN m}
EmptyMap == [x \in {} |-> 0]

\* ------------------------------------------------------- sync.RWMutex
Stores == {"user", "book", "access"}

\* A Create that does not wait for the lock.
CanLock_unguarded(s) == TRUE

\* A write lock that waits for the readers only.
CanLock_ignoresWriter(s) == mu[s].r = {}

CanLock(s) == mu[s].w = 0 /\ mu[s].r = {}

\* A read lock that does not wait for the writer.
CanRLock_unguarded(s) == TRUE

CanRLock(s) == mu[s].w = 0
Lock(s, p) == [mu EXCEPT ![s].w = p]
RLock(s, p) == [mu EXCEPT ![s].r = @ \cup {p}]
\* A return path that forgets to unlock.
Unlock_kept(s, p) == mu

Unlock(s, p) == [mu EXCEPT ![s].w = 0]
RUnlock(s, p) == [mu EXCEPT ![s].r = @ \ {p}]

\* ---------------------------------------------------------- callers
NoCall == [op |-> "none", store |-> "none", ref |-> NilRef, id |-> 0,
           email |-> <<>>, slot |-> 0]
NoRet ==
  [err |-> NilErr, val |-> NilRef, list |-> <<>>, stats |-> <<>>, done |-> FALSE]
Returned(e, v) ==
  [err |-> e, val |-> v, list |-> <<>>, stats |-> <<>>, done |-> TRUE]
ReturnedList(e, l) ==
  [err |-> e, val |-> NilRef, list |-> l, stats |-> <<>>, done |-> TRUE]
ReturnedStats(e, st) ==
  [err |-> e, val |-> NilRef, list |-> <<>>, stats |-> st, done |-> TRUE]

\* Go ranges over a map in an unspecified order: every enumeration of S.
RECURSIVE Orders(_)
Orders(S) ==
  IF S = {} THEN {<<>>}
  ELSE UNION {{<<x>> \o o : o \in Orders(S \ {x})} : x \in S}

\* ------------------------------------------------------------- heap
Min(S) == CHOOSE x \in S : \A y \in S : x <= y

\* The name a newly allocated object has until the step that allocates it ends.
TmpRef == 0 - (NumProcs + 1)

KeysOf(r, m) == {k \in DOMAIN m : m[k] = r}
HoldersOf(r, s, c, rt) ==
  {p \in Procs : /\ c[p].store = s
                 /\ \/ c[p].ref = r
                    \/ rt[p].val = r
                    \/ \E i \in 1..Len(rt[p].list) : rt[p].list[i] = r}

\* Where caller p holds object r: 0 for the argument or the returned pointer,
\* i for entry i of the returned slice.
SlotsOf(r, p, c, rt) ==
  (IF c[p].ref = r \/ rt[p].val = r THEN {0} ELSE {})
    \cup {i \in 1..Len(rt[p].list) : rt[p].list[i] = r}

\* The name of object r of repository s once the map is m and the callers hold
\* c and rt; NilRef for an object nothing refers to any more (garbage).
CanonRef(r, s, m, c, rt) ==
  IF r = NilRef THEN NilRef
  ELSE IF KeysOf(r, m) # {} THEN Min(KeysOf(r, m))
  ELSE IF HoldersOf(r, s, c, rt) # {}
    THEN 0 - Min(UNION {{q + (NumProcs + 1) * i : i \in SlotsOf(r, q, c, rt)} :
                          q \in HoldersOf(r, s, c, rt)})
  ELSE NilRef

CanonHeap(heap, s, m, c, rt) ==
  LET live == {r \in DOMAIN heap : CanonRef(r, s, m, c, rt) # NilRef}
  IN [n \in {CanonRef(r, s, m, c, rt) : r \in live} |->
        heap[CHOOSE r \in live : CanonRef(r, s, m, c, rt) = n]]

CanonMap(m, s, c, rt) == [k \in DOMAIN m |-> CanonRef(m[k], s, m, c, rt)]

CanonCalls(c, s, m, rt) ==
  [p \in Procs |->
     IF c[p].store = s THEN [c[p] EXCEPT !.ref = CanonRef(@, s, m, c, rt)]
     ELSE c[p]]

CanonRets(rt, s, m, c) ==
  [p \in Procs |->
     IF c[p].store = s
       THEN [rt[p] EXCEPT !.val = CanonRef(@, s, m, c, rt),
                          !.list = [i \in 1..Len(@) |-> CanonRef(@[i], s, m, c, rt)]]
     ELSE rt[p]]

\* History only: a Create call enters the log when it takes the write lock, its
\* identifier is filled in when it is assigned, and a rejected call leaves the log.
Pending == 0 - 1
LogEnter(s) == [createLog EXCEPT ![s] = Append(@, Pending)]
LogAssign(s, slot, id) == [createLog EXCEPT ![s][slot] = id]
LogLeave(s, slot) ==
  [createLog EXCEPT ![s] = SubSeq(@, 1, slot - 1) \o SubSeq(@, slot + 1, Len(@))]
SlotsAfterLeave(c, s, slot) ==
  [q \in Procs |->
     IF pc[q] = "cs" /\ c[q].store = s /\ c[q].slot > slot
       THEN [c[q] EXCEPT !.slot = @ - 1] ELSE c[q]]

\* Caller p starts a new call: its earlier Update is no longer the one to
\* compare the stored value with.
ForgetUpdate(p) ==
  [s \in Stores |->
     [i \in {k \in DOMAIN lastUpdate[s] : lastUpdate[s][k] # p} |-> lastUpdate[s][i]]]

\* Caller p takes the write lock of repository s for an Update of identifier id.
NoteUpdate(s, p, id) ==
  [ForgetUpdate(p) EXCEPT ![s] = MapSet(@, id, p)]

\* ------------------------------------------------- InMemoryUserRepo
ErrUserDuplicate == "ya existe un usuario con ese email"
ErrUserNotFoundV1 == "usuario no encontrado para actualizar"
ErrUserNoID == "el usuario no tiene ID asignado"
ErrUserNotFoundV2 == "no existe un usuario con ese ID"

\* The next state of the user heap, map and the callers' references.
UserRefs(heap, m, c, rt) ==
  /\ userHeap' = CanonHeap(heap, "user", m, c, rt)
  /\ users' = CanonMap(m, "user", c, rt)
  /\ call' = CanonCalls(c, "user", m, rt)
  /\ ret' = CanonRets(rt, "user", m, c)

UserCall(o, r, i, e, sl) ==
  [op |-> o, store |-> "user", ref |-> r, id |-> i, email |-> e, slot |-> sl]

\* A nextID that stops counting at 1.
nextID_stuck(seq) == 1

\* A nextID that counts in twos.
nextID_skips(seq) == seq + 2

\* nextID: r.seq++; return r.seq
nextID(seq) == seq + 1

\* A caller builds a user with NewUser and calls Create, which takes the write lock.
UserCreateLock(p, name, email, role) ==
  LET nu == NewUser(name, email, role)
  IN /\ pc[p] = "idle"
     /\ nu.err = NilErr
     /\ userSeq < MaxSeq
     /\ CanLock("user")
     /\ mu' = Lock("user", p)
     /\ UserRefs(MapSet(userHeap, TmpRef, nu.user), users,
                 [call EXCEPT ![p] = UserCall("Create", TmpRef, 0, <<>>,
                                               Len(createLog["user"]) + 1)],
                 [ret EXCEPT ![p] = NoRet])
     /\ createLog' = LogEnter("user")
     /\ pc' = [pc EXCEPT ![p] = "cs"]
     /\ lastUpdate' = ForgetUpdate(p)
     /\ UNCHANGED <<config, userSeq, emailIndex, bookVars, eventVars>>

\* A caller passes an entity the repository already holds (obtained from
\* FindByID or ListAll) to Create.
UserCreateStoredLock(p, k) ==
  /\ pc[p] = "idle"
  /\ k \in DOMAIN users
  /\ userSeq < MaxSeq
  /\ CanLock("user")
  /\ mu' = Lock("user", p)
  /\ UserRefs(userHeap, users,
              [call EXCEPT ![p] = UserCall("Create", users[k], 0, <<>>,
                                            Len(createLog["user"]) + 1)],
              [ret EXCEPT ![p] = NoRet])
  /\ createLog' = LogEnter("user")
  /\ pc' = [pc EXCEPT ![p] = "cs"]
  /\ lastUpdate' = ForgetUpdate(p)
  /\ UNCHANGED <<config, userSeq, emailIndex, bookVars, eventVars>>

\* A Create that takes the next identifier before it looks for a duplicate.
UserCreate_idFirst(p) ==
  LET u == call[p].ref
      e == userHeap[u].email
      id == nextID(userSeq)
  IN /\ pc[p] = "cs"
     /\ call[p].store = "user"
     /\ call[p].op = "Create"
     /\ userSeq' = id
     /\ IF e \in DOMAIN emailIndex
          THEN /\ UserRefs([userHeap EXCEPT ![u] = UserSetID(@, id)], users,
                           SlotsAfterLeave(call, "user", call[p].slot),
                           [ret EXCEPT ![p] = Returned(ErrUserDuplicate, NilRef)])
               /\ createLog' = LogLeave("user", call[p].slot)
               /\ UNCHANGED emailIndex
          ELSE /\ UserRefs([userHeap EXCEPT ![u] = UserSetID(@, id)],
                           MapSet(users, id, u), call,
                           [ret EXCEPT ![p] = Returned(NilErr, NilRef)])
               /\ emailIndex' = MapSet(emailIndex, e, id)
               /\ createLog' = LogAssign("user", call[p].slot, id)
     /\ mu' = Unlock("user", p)
     /\ pc' = [pc EXCEPT ![p] = "idle"]
     /\ UNCHANGED <<config, lastUpdate, bookVars, eventVars>>

\* A Create that stores the user without looking its email up in the index.
UserCreate_unchecked(p) ==
  LET u == call[p].ref
      e == userHeap[u].email
      id == nextID(userSeq)
  IN /\ pc[p] = "cs"
     /\ call[p].store = "user"
     /\ call[p].op = "Create"
     /\ userSeq' = id
     /\ UserRefs([userHeap EXCEPT ![u] = UserSetID(@, id)],
                 MapSet(users, id, u), call,
                 [ret EXCEPT ![p] = Returned(NilErr, NilRef)])
     /\ emailIndex' = MapSet(emailIndex, e, id)
     /\ createLog' = LogAssign("user", call[p].slot, id)
     /\ mu' = Unlock("user", p)
     /\ pc' = [pc EXCEPT ![p] = "idle"]
     /\ UNCHANGED <<config, lastUpdate, bookVars, eventVars>>

\* InMemoryUserRepo.Create, from the duplicate check to the deferred Unlock.
UserCreate(p) ==
  LET u == call[p].ref
      e == userHeap[u].email
      id == nextID(userSeq)
  IN /\ pc[p] = "cs"
     /\ call[p].store = "user"
     /\ call[p].op = "Create"
     /\ IF e \in DOMAIN emailIndex
          THEN /\ UserRefs(userHeap, users,
                           SlotsAfterLeave(call, "user", call[p].slot),
                           [ret EXCEPT ![p] = Returned(ErrUserDuplicate, NilRef)])
               /\ createLog' = LogLeave("user", call[p].slot)
               /\ UNCHANGED <<userSeq, emailIndex>>
          ELSE /\ userSeq' = id
               /\ UserRefs([userHeap EXCEPT ![u] = UserSetID(@, id)],
                           MapSet(users, id, u), call,
                           [ret EXCEPT ![p] = Returned(NilErr, NilRef)])
               /\ emailIndex' = MapSet(emailIndex, e, id)
               /\ createLog' = LogAssign("user", call[p].slot, id)
     /\ mu' = Unlock("user", p)
     /\ pc' = [pc EXCEPT ![p] = "idle"]
     /\ UNCHANGED <<config, lastUpdate, bookVars, eventVars>>

\* A caller builds a user, gives it identifier k with SetID (k = 0: leaves it
\* unset) and calls Update.
UserUpdateLock(p, name, email, role, k) ==
  LET nu == NewUser(name, email, role)
  IN /\ pc[p] = "idle"
     /\ nu.err = NilErr
     /\ CanLock("user")
     /\ mu' = Lock("user", p)
     /\ UserRefs(MapSet(userHeap, TmpRef, UserSetID(nu.user, k)), users,
                 [call EXCEPT ![p] = UserCall("Update", TmpRef, 0, <<>>, 0)],
                 [ret EXCEPT ![p] = NoRet])
     /\ pc' = [pc EXCEPT ![p] = "cs"]
     /\ lastUpdate' = NoteUpdate("user", p, k)
     /\ UNCHANGED <<config, userSeq, emailIndex, createLog, bookVars, eventVars>>

\* A caller passes an entity the repository already holds to Update.
UserUpdateStoredLock(p, k) ==
  /\ pc[p] = "idle"
  /\ k \in DOMAIN users
  /\ CanLock("user")
  /\ mu' = Lock("user", p)
  /\ UserRefs(userHeap, users,
              [call EXCEPT ![p] = UserCall("Update", users[k], 0, <<>>, 0)],
              [ret EXCEPT ![p] = NoRet])
  /\ pc' = [pc EXCEPT ![p] = "cs"]
  /\ lastUpdate' = NoteUpdate("user", p, userHeap[users[k]].id)
  /\ UNCHANGED <<config, userSeq, emailIndex, createLog, bookVars, eventVars>>

\* Update, first version: the map entry is replaced and the new email is put in
\* the index; nothing is removed from the index.
UserUpdateV1(p) ==
  LET u == call[p].ref
      usr == userHeap[u]
  IN IF usr.id \notin DOMAIN users
       THEN /\ UserRefs(userHeap, users, call,
                        [ret EXCEPT ![p] = Returned(ErrUserNotFoundV1, NilRef)])
            /\ UNCHANGED emailIndex
       ELSE /\ UserRefs(userHeap, MapSet(users, usr.id, u), call,
                        [ret EXCEPT ![p] = Returned(NilErr, NilRef)])
            /\ emailIndex' = MapSet(emailIndex, usr.email, usr.id)

\* Update, second version: the range loop over emailIndex stops at the first
\* entry of this identifier whose key differs from the new email (Go's map
\* order decides which entry that is), deletes it and puts the new email.
UserUpdateV2(p) ==
  LET u == call[p].ref
      usr == userHeap[u]
      stale == {em \in DOMAIN emailIndex :
                  emailIndex[em] = usr.id /\ em # usr.email}
  IN IF usr.id = 0
       THEN /\ UserRefs(userHeap, users, call,
                        [ret EXCEPT ![p] = Returned(ErrUserNoID, NilRef)])
            /\ UNCHANGED emailIndex
     ELSE IF usr.id \notin DOMAIN users
       THEN /\ UserRefs(userHeap, users, call,
                        [ret EXCEPT ![p] = Returned(ErrUserNotFoundV2, NilRef)])
            /\ UNCHANGED emailIndex
     ELSE /\ \/ /\ stale = {}
                /\ UNCHANGED emailIndex
             \/ \E em \in stale :
                  emailIndex' = MapSet(MapDelete(emailIndex, em), usr.email, usr.id)
          /\ UserRefs(userHeap, MapSet(users, usr.id, u), call,
                      [ret EXCEPT ![p] = Returned(NilErr, NilRef)])

\* InMemoryUserRepo.Update up to the deferred Unlock.
UserUpdate(p) ==
  /\ pc[p] = "cs"
  /\ call[p].store = "user"
  /\ call[p].op = "Update"
  /\ IF repoV = 1 THEN UserUpdateV1(p) ELSE UserUpdateV2(p)
  /\ mu' = Unlock("user", p)
  /\ pc' = [pc EXCEPT ![p] = "idle"]
  /\ UNCHANGED <<config, lastUpdate, userSeq, createLog, bookVars, eventVars>>

\* A FindByID that reports a missing user as an error.
UserFindByIDIn_notFound(us, id) ==
  IF id \notin DOMAIN us THEN Returned(ErrUserNotFoundV1, NilRef)
  ELSE Returned(NilErr, us[id])

\* What FindByID returns when the map is us.
UserFindByIDIn(us, id) ==
  IF id \notin DOMAIN us THEN Returned(NilErr, NilRef)
  ELSE Returned(NilErr, us[id])

UserFindByIDResult(id) == UserFindByIDIn(users, id)

\* What FindByEmail returns when the index is idx and the map is us: the first
\* version looks the argument up as given and returns r.users[id] unchecked
\* (nil for a missing key), the second looks up its lower-case form and checks
\* that the user exists.
UserFindByEmailIn(idx, us, email) ==
  IF repoV = 1
    THEN IF email \notin DOMAIN idx THEN Returned(NilErr, NilRef)
         ELSE IF idx[email] \in DOMAIN us THEN Returned(NilErr, us[idx[email]])
         ELSE Returned(NilErr, NilRef)
    ELSE LET key == ToLower(email)
         IN IF key \notin DOMAIN idx THEN Returned(NilErr, NilRef)
            ELSE IF idx[key] \notin DOMAIN us THEN Returned(NilErr, NilRef)
            ELSE Returned(NilErr, us[idx[key]])

UserFindByEmailResult(email) == UserFindByEmailIn(emailIndex, users, email)

\* FindByID and FindByEmail take the read lock.
UserFindByIDLock(p, id) ==
  /\ pc[p] = "idle"
  /\ CanRLock("user")
  /\ mu' = RLock("user", p)
  /\ UserRefs(userHeap, users,
              [call EXCEPT ![p] = UserCall("FindByID", NilRef, id, <<>>, 0)],
              [ret EXCEPT ![p] = NoRet])
  /\ pc' = [pc EXCEPT ![p] = "cs"]
  /\ lastUpdate' = ForgetUpdate(p)
  /\ UNCHANGED <<config, userSeq, emailIndex, createLog, bookVars, eventVars>>

UserFindByEmailLock(p, email) ==
  /\ pc[p] = "idle"
  /\ CanRLock("user")
  /\ mu' = RLock("user", p)
  /\ UserRefs(userHeap, users,
              [call EXCEPT ![p] = UserCall("FindByEmail", NilRef, 0, email, 0)],
              [ret EXCEPT ![p] = NoRet])
  /\ pc' = [pc EXCEPT ![p] = "cs"]
  /\ lastUpdate' = ForgetUpdate(p)
  /\ UNCHANGED <<config, userSeq, emailIndex, createLog, bookVars, eventVars>>

UserFindByID(p) ==
  /\ pc[p] = "cs"
  /\ call[p].store = "user"
  /\ call[p].op = "FindByID"
  /\ ret' = [ret EXCEPT ![p] = UserFindByIDResult(call[p].id)]
  /\ mu' = RUnlock("user", p)
  /\ pc' = [pc EXCEPT ![p] = "idle"]
  /\ UNCHANGED <<config, lastUpdate, userVars, bookVars, eventVars, call, createLog>>

\* A FindByEmail that notes a missing email in the index.
UserFindByEmail_caches(p) ==
  /\ pc[p] = "cs"
  /\ call[p].store = "user"
  /\ call[p].op = "FindByEmail"
  /\ ret' = [ret EXCEPT ![p] = UserFindByEmailResult(call[p].email)]
  /\ emailIndex' = IF call[p].email \in DOMAIN emailIndex THEN emailIndex
                   ELSE MapSet(emailIndex, call[p].email, 0)
  /\ mu' = RUnlock("user", p)
  /\ pc' = [pc EXCEPT ![p] = "idle"]
  /\ UNCHANGED <<config, lastUpdate, userSeq, users, userHeap, bookVars,
                 eventVars, call, createLog>>

UserFindByEmail(p) ==
  /\ pc[p] = "cs"
  /\ call[p].store = "user"
  /\ call[p].op = "FindByEmail"
  /\ ret' = [ret EXCEPT ![p] = UserFindByEmailResult(call[p].email)]
  /\ mu' = RUnlock("user", p)
  /\ pc' = [pc EXCEPT ![p] = "idle"]
  /\ UNCHANGED <<config, lastUpdate, userVars, bookVars, eventVars, call, createLog>>

\* ------------------------------------------------- InMemoryBookRepo
ErrBookNotFoundV1 == "libro no encontrado para actualizar"
ErrBookNoID == "el libro no tiene ID asignado"
ErrBookNotFoundV2 == "no existe un libro con ese ID"

\* The next state of the book heap, map and the callers' references.
BookRefs(heap, m, c, rt) ==
  /\ bookHeap' = CanonHeap(heap, "book", m, c, rt)
  /\ books' = CanonMap(m, "book", c, rt)
  /\ call' = CanonCalls(c, "book", m, rt)
  /\ ret' = CanonRets(rt, "book", m, c)

BookCall(o, r, i, sl) ==
  [op |-> o, store |-> "book", ref |-> r, id |-> i, email |-> <<>>, slot |-> sl]

\* A caller builds a book with NewBook and calls Create, which takes the write lock.
BookCreateLock(p, in) ==
  LET nb == NewBook(in.title, in.author, in.year, in.isbn, in.categoryTI, in.tags)
  IN /\ pc[p] = "idle"
     /\ nb.err = NilErr
     /\ bookSeq < MaxSeq
     /\ CanLock("book")
     /\ mu' = Lock("book", p)
     /\ BookRefs(MapSet(bookHeap, TmpRef, nb.book), books,
                 [call EXCEPT ![p] = BookCall("Create", TmpRef, 0,
                                               Len(createLog["book"]) + 1)],
                 [ret EXCEPT ![p] = NoRet])
     /\ createLog' = LogEnter("book")
     /\ pc' = [pc EXCEPT ![p] = "cs"]
     /\ lastUpdate' = ForgetUpdate(p)
     /\ UNCHANGED <<config, bookSeq, userVars, eventVars>>

\* A caller passes a book the repository already holds to Create.
BookCreateStoredLock(p, k) ==
  /\ pc[p] = "idle"
  /\ k \in DOMAIN books
  /\ bookSeq < MaxSeq
  /\ CanLock("book")
  /\ mu' = Lock("book", p)
  /\ BookRefs(bookHeap, books,
              [call EXCEPT ![p] = BookCall("Create", books[k], 0,
                                            Len(createLog["book"]) + 1)],
              [ret EXCEPT ![p] = NoRet])
  /\ createLog' = LogEnter("book")
  /\ pc' = [pc EXCEPT ![p] = "cs"]
  /\ lastUpdate' = ForgetUpdate(p)
  /\ UNCHANGED <<config, bookSeq, userVars, eventVars>>

\* InMemoryBookRepo.Create up to the deferred Unlock.
BookCreate(p) ==
  LET b == call[p].ref
      id == nextID(bookSeq)
  IN /\ pc[p] = "cs"
     /\ call[p].store = "book"
     /\ call[p].op = "Create"
     /\ bookSeq' = id
     /\ BookRefs([bookHeap EXCEPT ![b] = BookSetID(@, id)],
                 MapSet(books, id, b), call,
                 [ret EXCEPT ![p] = Returned(NilErr, NilRef)])
     /\ createLog' = LogAssign("book", call[p].slot, id)
     /\ mu' = Unlock("book", p)
     /\ pc' = [pc EXCEPT ![p] = "idle"]
     /\ UNCHANGED <<config, lastUpdate, userVars, eventVars>>

\* A caller builds a book, gives it identifier k with SetID (k = 0: leaves it
\* unset) and calls Update.
BookUpdateLock(p, in, k) ==
  LET nb == NewBook(in.title, in.author, in.year, in.isbn, in.categoryTI, in.tags)
  IN /\ pc[p] = "idle"
     /\ nb.err = NilErr
     /\ CanLock("book")
     /\ mu' = Lock("book", p)
     /\ BookRefs(MapSet(bookHeap, TmpRef, BookSetID(nb.book, k)), books,
                 [call EXCEPT ![p] = BookCall("Update", TmpRef, 0, 0)],
                 [ret EXCEPT ![p] = NoRet])
     /\ pc' = [pc EXCEPT ![p] = "cs"]
     /\ lastUpdate' = NoteUpdate("book", p, k)
     /\ UNCHANGED <<config, bookSeq, createLog, userVars, eventVars>>

\* A caller passes a book the repository already holds to Update.
BookUpdateStoredLock(p, k) ==
  /\ pc[p] = "idle"
  /\ k \in DOMAIN books
  /\ CanLock("book")
  /\ mu' = Lock("book", p)
  /\ BookRefs(bookHeap, books,
              [call EXCEPT ![p] = BookCall("Update", books[k], 0, 0)],
              [ret EXCEPT ![p] = NoRet])
  /\ pc' = [pc EXCEPT ![p] = "cs"]
  /\ lastUpdate' = NoteUpdate("book", p, bookHeap[books[k]].id)
  /\ UNCHANGED <<config, bookSeq, createLog, userVars, eventVars>>

\* What Update returns for book b: the second version tells identifier 0 apart.
\* An Update that stores the book whether or not its identifier is known.
BookUpdateErr_upsert(b) == NilErr

BookUpdateErr(b) ==
  IF repoV = 1
    THEN IF b.id \notin DOMAIN books THEN ErrBookNotFoundV1 ELSE NilErr
    ELSE IF b.id = 0 THEN ErrBookNoID
         ELSE IF b.id \notin DOMAIN books THEN ErrBookNotFoundV2
         ELSE NilErr

\* An Update that also advances the sequence counter.
BookUpdate_counts(p) ==
  LET b == call[p].ref
      bk == bookHeap[b]
      err == BookUpdateErr(bk)
  IN /\ pc[p] = "cs"
     /\ call[p].store = "book"
     /\ call[p].op = "Update"
     /\ IF err # NilErr
          THEN /\ BookRefs(bookHeap, books, call,
                           [ret EXCEPT ![p] = Returned(err, NilRef)])
               /\ UNCHANGED bookSeq
          ELSE /\ BookRefs(bookHeap, MapSet(books, bk.id, b), call,
                           [ret EXCEPT ![p] = Returned(NilErr, NilRef)])
               /\ bookSeq' = nextID(bookSeq)
     /\ mu' = Unlock("book", p)
     /\ pc' = [pc EXCEPT ![p] = "idle"]
     /\ UNCHANGED <<config, lastUpdate, createLog, userVars, eventVars>>

\* An Update that drops the book it was asked to replace.
BookUpdate_drops(p) ==
  LET b == call[p].ref
      bk == bookHeap[b]
      err == BookUpdateErr(bk)
  IN /\ pc[p] = "cs"
     /\ call[p].store = "book"
     /\ call[p].op = "Update"
     /\ IF err # NilErr
          THEN BookRefs(bookHeap, books, call,
                        [ret EXCEPT ![p] = Returned(err, NilRef)])
          ELSE BookRefs(bookHeap, MapDelete(books, bk.id), call,
                        [ret EXCEPT ![p] = Returned(NilErr, NilRef)])
     /\ mu' = Unlock("book", p)
     /\ pc' = [pc EXCEPT ![p] = "idle"]
     /\ UNCHANGED <<config, lastUpdate, bookSeq, createLog, userVars, eventVars>>

\* InMemoryBookRepo.Update up to the deferred Unlock.
BookUpdate(p) ==
  LET b == call[p].ref
      bk == bookHeap[b]
      err == BookUpdateErr(bk)
  IN /\ pc[p] = "cs"
     /\ call[p].store = "book"
     /\ call[p].op = "Update"
     /\ IF err # NilErr
          THEN BookRefs(bookHeap, books, call,
                        [ret EXCEPT ![p] = Returned(err, NilRef)])
          ELSE BookRefs(bookHeap, MapSet(books, bk.id, b), call,
                        [ret EXCEPT ![p] = Returned(NilErr, NilRef)])
     /\ mu' = Unlock("book", p)
     /\ pc' = [pc EXCEPT ![p] = "idle"]
     /\ UNCHANGED <<config, lastUpdate, bookSeq, createLog, userVars, eventVars>>

\* What FindByID returns when the map is bs.
\* A FindByID that finds a book under every identifier.
BookFindByIDIn_found(bs, id) == Returned(NilErr, id)

\* A FindByID that hides archived books.
BookFindByIDIn_activeOnly(bs, id) ==
  IF id \notin DOMAIN bs THEN Returned(NilErr, NilRef)
  ELSE IF ~bookHeap[bs[id]].active THEN Returned(NilErr, NilRef)
  ELSE Returned(NilErr, bs[id])

BookFindByIDIn(bs, id) ==
  IF id \notin DOMAIN bs THEN Returned(NilErr, NilRef)
  ELSE Returned(NilErr, bs[id])

BookFindByIDResult(id) == BookFindByIDIn(books, id)

BookFindByIDLock(p, id) ==
  /\ pc[p] = "idle"
  /\ CanRLock("book")
  /\ mu' = RLock("book", p)
  /\ BookRefs(bookHeap, books,
              [call EXCEPT ![p] = BookCall("FindByID", NilRef, id, 0)],
              [ret EXCEPT ![p] = NoRet])
  /\ pc' = [pc EXCEPT ![p] = "cs"]
  /\ lastUpdate' = ForgetUpdate(p)
  /\ UNCHANGED <<config, bookSeq, createLog, userVars, eventVars>>

BookFindByID(p) ==
  /\ pc[p] = "cs"
  /\ call[p].store = "book"
  /\ call[p].op = "FindByID"
  /\ ret' = [ret EXCEPT ![p] = BookFindByIDResult(call[p].id)]
  /\ mu' = RUnlock("book", p)
  /\ pc' = [pc EXCEPT ![p] = "idle"]
  /\ UNCHANGED <<config, lastUpdate, userVars, bookVars, eventVars, call, createLog>>

\* bookHasAllTags: every filter tag, lower-cased, is among the book's
\* lower-cased tags.
bookHasAllTags(b, tags) ==
  LET tagSet == {ToLower(b.tags[i]) : i \in 1..Len(b.tags)}
  IN \A j \in 1..Len(tags) : ToLower(tags[j]) \in tagSet

\* The filter with no field set.
NoFilter ==
  [TitleContains |-> <<>>, AuthorContains |-> <<>>, CategoryTI |-> <<>>,
   YearFrom |-> 0, YearTo |-> 0, Tags |-> <<>>]

\* Book.Active
IsActive_always(b) == TRUE

IsActive(b) == b.active

\* Year bounds that leave the bound itself out.
YearInRange_exclusive(y, f) ==
  /\ ~(f.YearFrom > 0 /\ y <= f.YearFrom)
  /\ ~(f.YearTo > 0 /\ y >= f.YearTo)

\* The two year checks of the SearchByFilters loop.
YearInRange(y, f) ==
  /\ ~(f.YearFrom > 0 /\ y < f.YearFrom)
  /\ ~(f.YearTo > 0 /\ y > f.YearTo)

\* The body of the SearchByFilters loop: TRUE when book b is appended to the
\* result.  Only the first version looks at the filter's tags.
BookMatches(b, f) ==
  /\ IsActive(b)
  /\ ~(/\ f.TitleContains # <<>>
       /\ ~Contains(ToLower(b.title), ToLower(f.TitleContains)))
  /\ ~(/\ f.AuthorContains # <<>>
       /\ ~Contains(ToLower(b.author), ToLower(f.AuthorContains)))
  /\ ~(f.CategoryTI # <<>> /\ ~EqualFold(b.categoryTI, f.CategoryTI))
  /\ YearInRange(b.year, f)
  /\ repoV = 1 => ~(Len(f.Tags) > 0 /\ ~bookHasAllTags(b, f.Tags))

\* The slices SearchByFilters can return: the matching books, one entry for
\* each key of the map, in any order.
SearchByFiltersResults(f) ==
  {[i \in 1..Len(o) |-> books[o[i]]] :
     o \in Orders({k \in DOMAIN books : BookMatches(bookHeap[books[k]], f)})}

BookSearchLock(p, f) ==
  /\ pc[p] = "idle"
  /\ CanRLock("book")
  /\ mu' = RLock("book", p)
  /\ BookRefs(bookHeap, books,
              [call EXCEPT ![p] =
                 BookCall("SearchByFilters", NilRef, 0, 0) @@ [filter |-> f]],
              [ret EXCEPT ![p] = NoRet])
  /\ pc' = [pc EXCEPT ![p] = "cs"]
  /\ lastUpdate' = ForgetUpdate(p)
  /\ UNCHANGED <<config, bookSeq, createLog, userVars, eventVars>>

BookSearch(p) ==
  /\ pc[p] = "cs"
  /\ call[p].store = "book"
  /\ call[p].op = "SearchByFilters"
  /\ \E l \in SearchByFiltersResults(call[p].filter) :
       ret' = [ret EXCEPT ![p] = ReturnedList(NilErr, l)]
  /\ mu' = RUnlock("book", p)
  /\ pc' = [pc EXCEPT ![p] = "idle"]
  /\ UNCHANGED <<config, lastUpdate, userVars, bookVars, eventVars, call, createLog>>

\* A caller calls Archive on the book FindByID has just returned to it: the
\* stored object itself is changed, outside any lock.
BookArchive(p) ==
  /\ pc[p] = "idle"
  /\ call[p].store = "book"
  /\ call[p].op = "FindByID"
  /\ ret[p].done
  /\ ret[p].val # NilRef
  /\ bookHeap[ret[p].val].active
  /\ bookHeap' = [bookHeap EXCEPT ![ret[p].val].active = FALSE]
  /\ UNCHANGED <<config, lastUpdate, userVars, bookSeq, books, eventVars,
                 mu, pc, call, ret, createLog>>

\* --------------------------------------------------------- ListAll
\* The slices ListAll can return when the map is m: the pointer under each key,
\* in any order.
ListAllIn_first(m) ==
  {[i \in 1..Len(o) |-> m[o[i]]] :
     o \in UNION {Orders({k}) : k \in DOMAIN m} \cup {<<>>}}

ListAllIn(m) ==
  {[i \in 1..Len(o) |-> m[o[i]]] : o \in Orders(DOMAIN m)}

UserListAllLock(p) ==
  /\ pc[p] = "idle"
  /\ CanRLock("user")
  /\ mu' = RLock("user", p)
  /\ UserRefs(userHeap, users,
              [call EXCEPT ![p] = UserCall("ListAll", NilRef, 0, <<>>, 0)],
              [ret EXCEPT ![p] = NoRet])
  /\ pc' = [pc EXCEPT ![p] = "cs"]
  /\ lastUpdate' = ForgetUpdate(p)
  /\ UNCHANGED <<config, userSeq, emailIndex, createLog, bookVars, eventVars>>

UserListAll(p) ==
  /\ pc[p] = "cs"
  /\ call[p].store = "user"
  /\ call[p].op = "ListAll"
  /\ \E l \in ListAllIn(users) :
       ret' = [ret EXCEPT ![p] = ReturnedList(NilErr, l)]
  /\ mu' = RUnlock("user", p)
  /\ pc' = [pc EXCEPT ![p] = "idle"]
  /\ UNCHANGED <<config, lastUpdate, userVars, bookVars, eventVars, call, createLog>>

BookListAllLock(p) ==
  /\ pc[p] = "idle"
  /\ CanRLock("book")
  /\ mu' = RLock("book", p)
  /\ BookRefs(bookHeap, books,
              [call EXCEPT ![p] = BookCall("ListAll", NilRef, 0, 0)],
              [ret EXCEPT ![p] = NoRet])
  /\ pc' = [pc EXCEPT ![p] = "cs"]
  /\ lastUpdate' = ForgetUpdate(p)
  /\ UNCHANGED <<config, bookSeq, createLog, userVars, eventVars>>

BookListAll(p) ==
  /\ pc[p] = "cs"
  /\ call[p].store = "book"
  /\ call[p].op = "ListAll"
  /\ \E l \in ListAllIn(books) :
       ret' = [ret EXCEPT ![p] = ReturnedList(NilErr, l)]
  /\ mu' = RUnlock("book", p)
  /\ pc' = [pc EXCEPT ![p] = "idle"]
  /\ UNCHANGED <<config, lastUpdate, userVars, bookVars, eventVars, call, createLog>>

\* What callers do with a slice ListAll returned to them, outside any lock.
HoldsList(p, s) ==
  /\ pc[p] = "idle"
  /\ call[p].store = s
  /\ ret[p].done
  /\ ret[p].list # <<>>

\* The caller drops the first entry of its slice.
CallerCutsList(p, s) ==
  /\ HoldsList(p, s)
  /\ IF s = "user"
       THEN /\ UserRefs(userHeap, users, call,
                        [ret EXCEPT ![p].list = Tail(@)])
            /\ UNCHANGED bookVars
       ELSE /\ BookRefs(bookHeap, books, call,
                        [ret EXCEPT ![p].list = Tail(@)])
            /\ UNCHANGED userVars
  /\ UNCHANGED <<config, lastUpdate, userSeq, emailIndex, bookSeq, eventVars,
                 mu, pc, createLog>>

ErrChangeRole ==
  IF domainV = 1 THEN "nuevo rol no valido"
  ELSE "no se puede asignar un rol invalido"

\* A ChangeRole that assigns before it validates.
ChangeRole_unchecked(u, newRole) ==
  [user |-> [u EXCEPT !.role = newRole],
   err |-> IF isValidRole(newRole) THEN NilErr ELSE ErrChangeRole]

\* User.ChangeRole returns an error, or assigns the role.
ChangeRole(u, newRole) ==
  IF ~isValidRole(newRole)
    THEN [user |-> u, err |-> ErrChangeRole]
  ELSE [user |-> [u EXCEPT !.role = newRole], err |-> NilErr]

\* The caller calls ChangeRole on entry i of its slice.
UserChangeRole(p, i, newRole) ==
  /\ HoldsList(p, "user")
  /\ i \in 1..Len(ret[p].list)
  /\ LET r == ret[p].list[i]
         cr == ChangeRole(userHeap[r], newRole)
     IN /\ userHeap' = [userHeap EXCEPT ![r] = cr.user]
        /\ ret' = [ret EXCEPT ![p].err = cr.err]
        /\ call' = [call EXCEPT ![p] =
                      [role |-> newRole] @@
                      UserCall("ChangeRole", r, 0, <<>>, 0)]
  /\ UNCHANGED <<config, lastUpdate, userSeq, users, emailIndex, bookVars,
                 eventVars, mu, pc, createLog>>

\* User.Deactivate on entry i of the caller's slice.
UserDeactivate(p, i) ==
  /\ HoldsList(p, "user")
  /\ i \in 1..Len(ret[p].list)
  /\ userHeap[ret[p].list[i]].active
  /\ userHeap' = [userHeap EXCEPT ![ret[p].list[i]].active = FALSE]
  /\ UNCHANGED <<config, lastUpdate, userSeq, users, emailIndex, bookVars,
                 eventVars, mu, pc, call, ret, createLog>>

\* Book.Archive on entry i of the caller's slice.
BookArchiveListed(p, i) ==
  /\ HoldsList(p, "book")
  /\ i \in 1..Len(ret[p].list)
  /\ bookHeap[ret[p].list[i]].active
  /\ bookHeap' = [bookHeap EXCEPT ![ret[p].list[i]].active = FALSE]
  /\ UNCHANGED <<config, lastUpdate, userVars, bookSeq, books, eventVars,
                 mu, pc, call, ret, createLog>>

\* -------------------------------------------- InMemoryAccessLogRepo
EventRefs(heap, m, c, rt) ==
  /\ eventHeap' = CanonHeap(heap, "access", m, c, rt)
  /\ events' = CanonMap(m, "access", c, rt)
  /\ call' = CanonCalls(c, "access", m, rt)
  /\ ret' = CanonRets(rt, "access", m, c)

EventCall(o, r, i, sl) ==
  [op |-> o, store |-> "access", ref |-> r, id |-> i, email |-> <<>>, slot |-> sl]

\* A caller builds an event with NewAccessEvent and calls Store.
EventStoreLock(p, bookID, userID, accessType) ==
  LET ne == NewAccessEvent(bookID, userID, accessType)
  IN /\ pc[p] = "idle"
     /\ ne.err = NilErr
     /\ eventSeq < MaxSeq
     /\ CanLock("access")
     /\ mu' = Lock("access", p)
     /\ EventRefs(MapSet(eventHeap, TmpRef, ne.event), events,
                  [call EXCEPT ![p] = EventCall("Store", TmpRef, 0,
                                                 Len(createLog["access"]) + 1)],
                  [ret EXCEPT ![p] = NoRet])
     /\ createLog' = LogEnter("access")
     /\ pc' = [pc EXCEPT ![p] = "cs"]
     /\ lastUpdate' = ForgetUpdate(p)
     /\ UNCHANGED <<config, eventSeq, userVars, bookVars>>

\* InMemoryAccessLogRepo.Store up to the deferred Unlock.
\* A Store that keeps only the event it was given.
EventPut_only(evs, id, ev) == (id :> ev)

\* r.events[id] = event
EventPut(evs, id, ev) == MapSet(evs, id, ev)

EventStore(p) ==
  LET ev == call[p].ref
      id == nextID(eventSeq)
  IN /\ pc[p] = "cs"
     /\ call[p].store = "access"
     /\ call[p].op = "Store"
     /\ eventSeq' = id
     /\ EventRefs([eventHeap EXCEPT ![ev] = EventSetID(@, id)],
                  EventPut(events, id, ev), call,
                  [ret EXCEPT ![p] = Returned(NilErr, NilRef)])
     /\ createLog' = LogAssign("access", call[p].slot, id)
     /\ mu' = Unlock("access", p)
     /\ pc' = [pc EXCEPT ![p] = "idle"]
     /\ UNCHANGED <<config, lastUpdate, userVars, bookVars>>

\* A caller passes an event the repository already holds (obtained from
\* ListByBook or ListByUser) to Store.
EventStoreStoredLock(p, k) ==
  /\ pc[p] = "idle"
  /\ k \in DOMAIN events
  /\ eventSeq < MaxSeq
  /\ CanLock("access")
  /\ mu' = Lock("access", p)
  /\ EventRefs(eventHeap, events,
               [call EXCEPT ![p] = EventCall("Store", events[k], 0,
                                              Len(createLog["access"]) + 1)],
               [ret EXCEPT ![p] = NoRet])
  /\ createLog' = LogEnter("access")
  /\ pc' = [pc EXCEPT ![p] = "cs"]
  /\ lastUpdate' = ForgetUpdate(p)
  /\ UNCHANGED <<config, eventSeq, userVars, bookVars>>

\* A ListByBook that returns the events of every book.
EventOfBook_any(ev, b) == TRUE

\* The tests of the ListByBook and ListByUser loops.
EventOfBook(ev, b) == ev.bookID = b

EventOfUser(ev, u) == ev.userID = u

\* The slices ListByBook can return when the map is evs over heap: the events
\* of book b, one entry for each key of the map, in any order.
ListByBookIn(evs, heap, b) ==
  {[i \in 1..Len(o) |-> evs[o[i]]] :
     o \in Orders({k \in DOMAIN evs : EventOfBook(heap[evs[k]], b)})}

ListByBookResults(b) == ListByBookIn(events, eventHeap, b)

ListByUserIn(evs, heap, u) ==
  {[i \in 1..Len(o) |-> evs[o[i]]] :
     o \in Orders({k \in DOMAIN evs : EventOfUser(heap[evs[k]], u)})}

ListByUserResults(u) == ListByUserIn(events, eventHeap, u)

\* ListByBook, ListByUser and BuildAccessStatsByBook (which calls ListByBook)
\* take the read lock of the access log.
EventReadLock(p, o, id) ==
  /\ pc[p] = "idle"
  /\ CanRLock("access")
  /\ mu' = RLock("access", p)
  /\ EventRefs(eventHeap, events,
               [call EXCEPT ![p] = EventCall(o, NilRef, id, 0)],
               [ret EXCEPT ![p] = NoRet])
  /\ pc' = [pc EXCEPT ![p] = "cs"]
  /\ lastUpdate' = ForgetUpdate(p)
  /\ UNCHANGED <<config, eventSeq, createLog, userVars, bookVars>>

EventListByBook(p) ==
  /\ pc[p] = "cs"
  /\ call[p].store = "access"
  /\ call[p].op = "ListByBook"
  /\ \E l \in ListByBookResults(call[p].id) :
       ret' = [ret EXCEPT ![p] = ReturnedList(NilErr, l)]
  /\ mu' = RUnlock("access", p)
  /\ pc' = [pc EXCEPT ![p] = "idle"]
  /\ UNCHANGED <<config, lastUpdate, userVars, bookVars, eventVars, call, createLog>>

EventListByUser(p) ==
  /\ pc[p] = "cs"
  /\ call[p].store = "access"
  /\ call[p].op = "ListByUser"
  /\ \E l \in ListByUserResults(call[p].id) :
       ret' = [ret EXCEPT ![p] = ReturnedList(NilErr, l)]
  /\ mu' = RUnlock("access", p)
  /\ pc' = [pc EXCEPT ![p] = "idle"]
  /\ UNCHANGED <<config, lastUpdate, userVars, bookVars, eventVars, call, createLog>>

\* The counting loop of BuildAccessStatsByBook over the slice l, from entry i
\* on: stats[ev.AccessType()] = stats[ev.AccessType()] + 1, a missing key
\* reading as 0.
RECURSIVE CountByType(_, _, _, _)
CountByType(heap, l, i, stats) ==
  IF i > Len(l) THEN stats
  ELSE LET t == heap[l[i]].accessType
           n == IF t \in DOMAIN stats THEN stats[t] ELSE 0
       IN CountByType(heap, l, i + 1, MapSet(stats, t, n + 1))

\* The maps BuildAccessStatsByBook(b) can return.
BuildAccessStatsByBookIn(evs, heap, b) ==
  {CountByType(heap, l, 1, EmptyMap) : l \in ListByBookIn(evs, heap, b)}

\* A BuildAccessStatsByBook that refuses a book the book repository lacks.
BuildAccessStatsByBook_checksBook(p) ==
  /\ pc[p] = "cs"
  /\ call[p].store = "access"
  /\ call[p].op = "BuildAccessStatsByBook"
  /\ IF call[p].id \notin DOMAIN books
       THEN ret' = [ret EXCEPT ![p] = ReturnedStats("libro no encontrado", EmptyMap)]
       ELSE \E st \in BuildAccessStatsByBookIn(events, eventHeap, call[p].id) :
              ret' = [ret EXCEPT ![p] = ReturnedStats(NilErr, st)]
  /\ mu' = RUnlock("access", p)
  /\ pc' = [pc EXCEPT ![p] = "idle"]
  /\ UNCHANGED <<config, lastUpdate, userVars, bookVars, eventVars, call, createLog>>

\* BuildAccessStatsByBook: ListByBook under the read lock, then the count over
\* the slice it returned; the events' fields are never written after NewAccessEvent.
BuildAccessStatsByBook(p) ==
  /\ pc[p] = "cs"
  /\ call[p].store = "access"
  /\ call[p].op = "BuildAccessStatsByBook"
  /\ \E st \in BuildAccessStatsByBookIn(events, eventHeap, call[p].id) :
       ret' = [ret EXCEPT ![p] = ReturnedStats(NilErr, st)]
  /\ mu' = RUnlock("access", p)
  /\ pc' = [pc EXCEPT ![p] = "idle"]
  /\ UNCHANGED <<config, lastUpdate, userVars, bookVars, eventVars, call, createLog>>

\* ------------------------------------------------------- BookService
ErrLibroNoEncontrado == "libro no encontrado"
ErrUsuarioNoEncontrado == "usuario no encontrado"

RecordAccessCall(bookID, userID, accessType) ==
  [op |-> "RecordAccess", store |-> "service", ref |-> NilRef, id |-> bookID,
   email |-> <<>>, slot |-> 0, userID |-> userID, accessType |-> accessType]

\* RecordAccess, step 1: s.bookRepo.FindByID(bookID) under the read lock of the
\* book repository; a nil book ends the call with an error.
RecordAccessFindBook(p, bookID, userID, accessType) ==
  LET found == BookFindByIDIn(books, bookID)
      c == [call EXCEPT ![p] = RecordAccessCall(bookID, userID, accessType)]
      missing == found.err # NilErr \/ found.val = NilRef
      rt == [ret EXCEPT ![p] =
               IF found.err # NilErr THEN Returned(found.err, NilRef)
               ELSE IF found.val = NilRef
                 THEN Returned(ErrLibroNoEncontrado, NilRef)
               ELSE NoRet]
  IN /\ pc[p] = "idle"
     /\ CanRLock("book")
     /\ call' = c
     /\ ret' = rt
     /\ userHeap' = CanonHeap(userHeap, "user", users, c, rt)
     /\ bookHeap' = CanonHeap(bookHeap, "book", books, c, rt)
     /\ eventHeap' = CanonHeap(eventHeap, "access", events, c, rt)
     /\ pc' = [pc EXCEPT ![p] = IF missing THEN "idle" ELSE "ra_user"]
     /\ lastUpdate' = ForgetUpdate(p)
     /\ UNCHANGED <<config, userSeq, users, emailIndex, bookSeq, books,
                    eventSeq, events, mu, createLog>>

\* RecordAccess, steps 2 and 3: s.userRepo.FindByID(userID) under the read lock
\* of the user repository, then NewAccessEvent; a nil user or a rejected event
\* ends the call with an error.
RecordAccessFindUser(p) ==
  LET found == UserFindByIDIn(users, call[p].userID)
      ne == NewAccessEvent(call[p].id, call[p].userID, call[p].accessType)
      e == IF found.err # NilErr THEN found.err
           ELSE IF found.val = NilRef THEN ErrUsuarioNoEncontrado
           ELSE ne.err
  IN /\ pc[p] = "ra_user"
     /\ CanRLock("user")
     /\ ret' = [ret EXCEPT ![p] = IF e # NilErr THEN Returned(e, NilRef) ELSE NoRet]
     /\ pc' = [pc EXCEPT ![p] = IF e # NilErr THEN "idle" ELSE "ra_store"]
     /\ UNCHANGED <<config, lastUpdate, userVars, bookVars, eventVars, mu,
                    call, createLog>>

\* RecordAccess, step 4: s.accessLogRepo.Store(event) takes the write lock of
\* the access log; Store's body then ends the call.
RecordAccessStoreLock(p) ==
  LET ne == NewAccessEvent(call[p].id, call[p].userID, call[p].accessType)
  IN /\ pc[p] = "ra_store"
     /\ eventSeq < MaxUpdated
     /\ CanLock("access")
     /\ mu' = Lock("access", p)
     /\ EventRefs(MapSet(eventHeap, TmpRef, ne.event), events,
                  [call EXCEPT ![p] = EventCall("Store", TmpRef, 0,
                                                 Len(createLog["access"]) + 1)],
                  [ret EXCEPT ![p] = NoRet])
     /\ createLog' = LogEnter("access")
     /\ pc' = [pc EXCEPT ![p] = "cs"]
     /\ UNCHANGED <<config, lastUpdate, eventSeq, userVars, bookVars>>

\* ------------------------------------------------- UserService.RegisterUser
ErrYaExiste == "ya existe un usuario con ese email"

RegisterUserCall(name, email, role) ==
  [name |-> name, role |-> role] @@ UserCall("RegisterUser", NilRef, 0, email, 0)

\* RegisterUser, steps 1 and 2: s.repo.FindByEmail(email) under the read lock of
\* the user repository, then NewUser; a user found or a rejected input ends the
\* call with an error.
RegisterUserFind(p, name, email, role) ==
  LET found == UserFindByEmailIn(emailIndex, users, email)
      nu == NewUser(name, email, role)
      e == IF found.err # NilErr THEN found.err
           ELSE IF found.val # NilRef THEN ErrYaExiste
           ELSE nu.err
      c == [call EXCEPT ![p] = RegisterUserCall(name, email, role)]
      rt == [ret EXCEPT ![p] = IF e # NilErr THEN Returned(e, NilRef) ELSE NoRet]
  IN /\ pc[p] = "idle"
     /\ CanRLock("user")
     /\ call' = c
     /\ ret' = rt
     /\ userHeap' = CanonHeap(userHeap, "user", users, c, rt)
     /\ bookHeap' = CanonHeap(bookHeap, "book", books, c, rt)
     /\ eventHeap' = CanonHeap(eventHeap, "access", events, c, rt)
     /\ pc' = [pc EXCEPT ![p] = IF e # NilErr THEN "idle" ELSE "ru_create"]
     /\ lastUpdate' = ForgetUpdate(p)
     /\ UNCHANGED <<config, userSeq, users, emailIndex, bookSeq, books,
                    eventSeq, events, mu, createLog>>

\* RegisterUser, step 3: s.repo.Create(user) takes the write lock of the user
\* repository; Create's body then ends the call. The counter is capped for the
\* calls that Create would accept.
RegisterUserCreateLock(p) ==
  LET nu == NewUser(call[p].name, call[p].email, call[p].role)
  IN /\ pc[p] = "ru_create"
     /\ userSeq < MaxSeq \/ nu.user.email \in DOMAIN emailIndex
     /\ CanLock("user")
     /\ mu' = Lock("user", p)
     /\ UserRefs(MapSet(userHeap, TmpRef, nu.user), users,
                 [call EXCEPT ![p] = UserCall("Create", TmpRef, 0, <<>>,
                                               Len(createLog["user"]) + 1)],
                 [ret EXCEPT ![p] = NoRet])
     /\ createLog' = LogEnter("user")
     /\ pc' = [pc EXCEPT ![p] = "cs"]
     /\ UNCHANGED <<config, lastUpdate, userSeq, emailIndex, bookVars, eventVars>>

\* ------------------------------------------------- BookService.RegisterBook
\* RegisterBook: NewBook, whose error ends the call before the repository is
\* reached; otherwise s.bookRepo.Create(book) takes the write lock and
\* Create's body ends the call.
RegisterBook(p, in) ==
  LET nb == NewBook(in.title, in.author, in.year, in.isbn, in.categoryTI, in.tags)
      c == [call EXCEPT ![p] = BookCall("RegisterBook", NilRef, 0, 0)]
      rt == [ret EXCEPT ![p] = Returned(nb.err, NilRef)]
  IN IF nb.err # NilErr
       THEN /\ pc[p] = "idle"
            /\ call' = c
            /\ ret' = rt
            /\ userHeap' = CanonHeap(userHeap, "user", users, c, rt)
            /\ bookHeap' = CanonHeap(bookHeap, "book", books, c, rt)
            /\ eventHeap' = CanonHeap(eventHeap, "access", events, c, rt)
            /\ lastUpdate' = ForgetUpdate(p)
            /\ UNCHANGED <<config, userSeq, users, emailIndex, bookSeq, books,
                           eventSeq, events, mu, pc, createLog>>
       ELSE BookCreateLock(p, in)

\* ------------------------------------------------- terminal program
\* The program of cmd/cli keeps three package-level slices and runs one menu
\* action at a time. Variant 1 is cmd/cli/main.go, variant 2 the one with tags.
CliVariants == {1, 2}

CliStart(v) ==
  [v |-> v, users |-> <<>>, books |-> <<>>, accessEvents |-> <<>>, out |-> ""]

Digits == <<"0", "1", "2", "3", "4", "5", "6", "7", "8", "9">>

IsDigit(c) == \E i \in 1..Len(Digits) : Digits[i] = c

DigitValue(c) == (CHOOSE i \in 1..Len(Digits) : Digits[i] = c) - 1

\* strconv.Atoi on a decimal string with an optional sign: the value, or an
\* error when no digit follows or another character occurs.
RECURSIVE AtoiFrom(_, _)
AtoiFrom(s, acc) ==
  IF s = <<>> THEN acc ELSE AtoiFrom(Tail(s), acc * 10 + DigitValue(Head(s)))

Atoi(s) ==
  LET signed == s # <<>> /\ Head(s) \in {"+", "-"}
      digits == IF signed THEN Tail(s) ELSE s
  IN IF digits = <<>> \/ \E i \in 1..Len(digits) : ~IsDigit(digits[i])
       THEN [val |-> 0, err |-> "invalid syntax"]
     ELSE IF signed /\ Head(s) = "-"
       THEN [val |-> 0 - AtoiFrom(digits, 0), err |-> NilErr]
     ELSE [val |-> AtoiFrom(digits, 0), err |-> NilErr]

CliRoleAdmin == <<"A", "D", "M", "I", "N">>
CliRoleReader == <<"R", "E", "A", "D", "E", "R">>

\* The first user of the slice that the duplicate loop of registerUser stops
\* at, 0 if it runs to the end: variant 1 compares email and name, variant 2
\* the email only.
CliDuplicateOf(c, name, email) ==
  LET hits == {i \in 1..Len(c.users) :
                 \/ EqualFold(c.users[i].Email, email)
                 \/ c.v = 1 /\ EqualFold(c.users[i].Name, name)}
  IN IF hits = {} THEN 0 ELSE CHOOSE i \in hits : \A j \in hits : i <= j

\* A duplicate loop that tells upper case from lower case.
CliRegisterUserIn_exact(c, nameIn, emailIn, roleIn) ==
  LET name == TrimSpace(nameIn)
      email == TrimSpace(emailIn)
      roleInput == ToUpper(TrimSpace(roleIn))
      newID == Len(c.users) + 1
  IN IF c.v = 1 /\ ~Contains(email, <<"@">>)
       THEN [c EXCEPT !.out = "Email invalido. Debe contener '@'."]
     ELSE IF roleInput \notin {CliRoleAdmin, CliRoleReader}
       THEN [c EXCEPT !.out = "Rol invalido. Debe ser ADMIN o READER."]
     ELSE IF \E i \in 1..Len(c.users) : c.users[i].Email = email
       THEN [c EXCEPT !.out = "Ya existe un usuario con ese email."]
     ELSE [c EXCEPT
             !.users = Append(@, [ID |-> newID, Name |-> name, Email |-> email,
                                  Role |-> IF roleInput = CliRoleAdmin
                                             THEN "ADMIN" ELSE "READER"]),
             !.out = "Usuario registrado correctamente"]

\* registerUser: the state of the program after the three lines read.
CliRegisterUserIn(c, nameIn, emailIn, roleIn) ==
  LET name == TrimSpace(nameIn)
      email == TrimSpace(emailIn)
      roleInput == ToUpper(TrimSpace(roleIn))
      newID == Len(c.users) + 1
      dup == CliDuplicateOf(c, name, email)
  IN IF c.v = 1 /\ ~Contains(email, <<"@">>)
       THEN [c EXCEPT !.out = "Email invalido. Debe contener '@'."]
     ELSE IF roleInput \notin {CliRoleAdmin, CliRoleReader}
       THEN [c EXCEPT !.out = "Rol invalido. Debe ser ADMIN o READER."]
     ELSE IF dup # 0
       THEN IF EqualFold(c.users[dup].Email, email)
              THEN [c EXCEPT !.out = "Ya existe un usuario con ese email."]
              ELSE [c EXCEPT !.out = "Ya existe un usuario con ese nombre."]
     ELSE [c EXCEPT
             !.users = Append(@, [ID |-> newID, Name |-> name, Email |-> email,
                                  Role |-> IF roleInput = CliRoleAdmin
                                             THEN "ADMIN" ELSE "READER"]),
             !.out = "Usuario registrado correctamente"]

\* The actions of the terminal program leave the repositories alone.
serverVars ==
  <<domainV, repoV, driven, userVars, bookVars, eventVars,
    mu, pc, call, ret, createLog, lastUpdate>>

\* Menu option 1. The slice is capped at MaxSeq users.
CliRegisterUser(nameIn, emailIn, roleIn) ==
  /\ cli' = CliRegisterUserIn(cli, nameIn, emailIn, roleIn)
  /\ Len(cli'.users) <= MaxSeq
  /\ UNCHANGED serverVars

\* Menu options 2, 4, 5 and 7 (listUsers, listBooks, searchBooks,
\* showAccessStats) print and write no slice; option is the one chosen.
CliShow(option) ==
  /\ cli' = [cli EXCEPT !.out = option]
  /\ UNCHANGED serverVars

\* Menu option 3, registerBook: the year must parse; the slice is capped at
\* MaxUpdated books.
CliRegisterBook(titleIn, yearIn) ==
  LET year == Atoi(TrimSpace(yearIn))
  IN /\ cli' = IF year.err # NilErr
                 THEN [cli EXCEPT !.out = "Anio invalido. Debe ser un numero."]
                 ELSE [cli EXCEPT
                         !.books = Append(@, [ID |-> Len(cli.books) + 1,
                                              Title |-> TrimSpace(titleIn),
                                              Year |-> year.val]),
                         !.out = "Libro registrado correctamente"]
     /\ Len(cli'.books) <= MaxUpdated
     /\ UNCHANGED serverVars

\* findUserByID / findBookByID: the index of the entry with that ID, 0 for nil.
CliFindByID(slice, id) ==
  IF \E i \in 1..Len(slice) : slice[i].ID = id
    THEN CHOOSE i \in 1..Len(slice) :
           slice[i].ID = id /\ \A j \in 1..(i - 1) : slice[j].ID # id
    ELSE 0

CliAccessTypes ==
  {<<"A", "P", "E", "R", "T", "U", "R", "A">>, <<"L", "E", "C", "T", "U", "R", "A">>,
   <<"D", "E", "S", "C", "A", "R", "G", "A">>}

\* Menu option 6, registerAccess; the slice is capped at MaxUpdated events.
CliRegisterAccess(userIn, bookIn, typeIn) ==
  LET userID == Atoi(TrimSpace(userIn))
      bookID == Atoi(TrimSpace(bookIn))
      accessInput == ToUpper(TrimSpace(typeIn))
      u == CliFindByID(cli.users, userID.val)
      b == CliFindByID(cli.books, bookID.val)
  IN /\ cli' = IF userID.err # NilErr
                 THEN [cli EXCEPT !.out = "ID de usuario invalido."]
               ELSE IF u = 0
                 THEN [cli EXCEPT !.out = "No existe un usuario con ese ID."]
               ELSE IF bookID.err # NilErr
                 THEN [cli EXCEPT !.out = "ID de libro invalido."]
               ELSE IF b = 0
                 THEN [cli EXCEPT !.out = "No existe un libro con ese ID."]
               ELSE IF accessInput \notin CliAccessTypes
                 THEN [cli EXCEPT !.out = "Tipo de acceso invalido."]
               ELSE [cli EXCEPT
                       !.accessEvents =
                          Append(@, [ID |-> Len(cli.accessEvents) + 1,
                                     BookID |-> cli.books[b].ID,
                                     UserID |-> cli.users[u].ID,
                                     Type |-> accessInput]),
                       !.out = "Acceso registrado correctamente"]
     /\ Len(cli'.accessEvents) <= MaxUpdated
     /\ UNCHANGED serverVars

\* ------------------------------------------------------------ inputs
NameInputs == {<<"n">>, <<" ">>}
EmailInputs == {<<"a", "@">>, <<"A", "@">>, <<"b", "@">>, <<" ">>}
RoleInputs == {"ADMIN", "ROOT"}
IDInputs == 0..(MaxSeq + 1)
BookInputs ==
  {[title |-> <<"G", "o">>, author |-> <<"p">>, year |-> 2, isbn |-> <<"i">>,
    categoryTI |-> <<"w">>, tags |-> <<>>],
   [title |-> <<"G", "o">>, author |-> <<"p">>, year |-> 0, isbn |-> <<"i">>,
    categoryTI |-> <<"w">>, tags |-> <<>>]}
EventBookInputs == {0, 1}
EventUserInputs == {1}
AccessTypeInputs == {"LECTURA", "APERTURA", ""}

\* ----------------------------------------------------- specifications
EmptyStores ==
  /\ userSeq = 0
  /\ users = EmptyMap
  /\ emailIndex = EmptyMap
  /\ userHeap = EmptyMap
  /\ bookSeq = 0
  /\ books = EmptyMap
  /\ bookHeap = EmptyMap
  /\ eventSeq = 0
  /\ events = EmptyMap
  /\ eventHeap = EmptyMap
  /\ mu = [s \in Stores |-> [w |-> 0, r |-> {}]]
  /\ pc = [p \in Procs |-> "idle"]
  /\ call = [p \in Procs |-> NoCall]
  /\ ret = [p \in Procs |-> NoRet]
  /\ createLog = [s \in Stores |-> <<>>]
  /\ lastUpdate = [s \in Stores |-> EmptyMap]

InitStores ==
  /\ domainV \in {1, 2}
  /\ repoV \in {1, 2}
  /\ EmptyStores
  /\ cli = CliStart(1)

Init == InitStores /\ driven \in Stores

\* A step of caller p on the user repository, names, emails and roles drawn
\* from N, E and R.
UserStepWith(p, N, E, R) ==
  \/ \E n \in N, e \in E, r \in R :
       UserCreateLock(p, n, e, r)
  \/ \E k \in IDInputs : UserCreateStoredLock(p, k)
  \/ UserCreate(p)
  \/ \E n \in N, e \in E, r \in R, k \in IDInputs :
       UserUpdateLock(p, n, e, r, k)
  \/ \E k \in IDInputs : UserUpdateStoredLock(p, k)
  \/ UserUpdate(p)
  \/ \E k \in IDInputs : UserFindByIDLock(p, k)
  \/ UserFindByID(p)
  \/ \E e \in E : UserFindByEmailLock(p, e)
  \/ UserFindByEmail(p)

UserStep(p) == UserStepWith(p, NameInputs, EmailInputs, RoleInputs)

\* A step of caller p on the book repository.
BookStep(p) ==
  \/ \E in \in BookInputs : BookCreateLock(p, in)
  \/ \E k \in IDInputs : BookCreateStoredLock(p, k)
  \/ BookCreate(p)
  \/ \E in \in BookInputs, k \in IDInputs : BookUpdateLock(p, in, k)
  \/ \E k \in IDInputs : BookUpdateStoredLock(p, k)
  \/ BookUpdate(p)
  \/ \E k \in IDInputs : BookFindByIDLock(p, k)
  \/ BookFindByID(p)

\* A step of caller p on the access-log repository.
EventStep(p) ==
  \/ \E b \in EventBookInputs, u \in EventUserInputs, t \in AccessTypeInputs :
       EventStoreLock(p, b, u, t)
  \/ EventStore(p)

\* One caller at a time, every repository operation.
Next ==
  \/ driven = "user" /\ UserStep(1)
  \/ driven = "book" /\ BookStep(1)
  \/ driven = "access" /\ EventStep(1)

Spec == Init /\ [][Next]_vars

\* Concurrent callers creating entities.
NextCreate ==
  \E p \in Procs :
    \/ /\ driven = "user"
       /\ \/ \E n \in NameInputs, e \in EmailInputs, r \in RoleInputs :
               UserCreateLock(p, n, e, r)
          \/ UserCreate(p)
    \/ /\ driven = "book"
       /\ \/ \E in \in BookInputs : BookCreateLock(p, in)
          \/ \E k \in IDInputs : BookCreateStoredLock(p, k)
          \/ BookCreate(p)
    \/ /\ driven = "access"
       /\ \/ \E b \in EventBookInputs, u \in EventUserInputs, t \in AccessTypeInputs :
               EventStoreLock(p, b, u, t)
          \/ EventStore(p)

SpecCreate == Init /\ [][NextCreate]_vars

\* Caller 1 creates one user or one book and keeps it, making no further call,
\* while caller 2 goes on with every operation of that repository.
HoldEmails == {<<"a", "@">>, <<"b", "@">>}

InitHold == InitStores /\ driven \in {"user", "book"}

NextHold ==
  \/ /\ driven = "user"
     /\ \/ /\ call[1] = NoCall
           /\ \E e \in HoldEmails : UserCreateLock(1, <<"n">>, e, "ADMIN")
        \/ UserCreate(1)
        \/ UserStepWith(2, {<<"n">>}, HoldEmails, {"ADMIN"})
  \/ /\ driven = "book"
     /\ \/ /\ call[1] = NoCall
           /\ \E in \in BookInputs : BookCreateLock(1, in)
        \/ BookCreate(1)
        \/ BookStep(2)

SpecHold == InitHold /\ [][NextHold]_vars

\* Two concurrent callers updating users or books, of which at most
\* MaxUpdated are created.
Updaters == {1, 2}

UpdateBookInputs ==
  {[title |-> <<"G", "o">>, author |-> <<"p">>, year |-> 2, isbn |-> <<"i">>,
    categoryTI |-> <<"w">>, tags |-> <<>>],
   [title |-> <<"G", "o">>, author |-> <<"p">>, year |-> 3, isbn |-> <<"i">>,
    categoryTI |-> <<"w">>, tags |-> <<>>]}

NextUpdate ==
  \E p \in Updaters :
    \/ /\ driven = "user"
       /\ \/ /\ userSeq < MaxUpdated
             /\ \E e \in HoldEmails : UserCreateLock(p, <<"n">>, e, "ADMIN")
          \/ UserCreate(p)
          \/ \E e \in HoldEmails, k \in 0..MaxUpdated :
               UserUpdateLock(p, <<"n">>, e, "ADMIN", k)
          \/ UserUpdate(p)
    \/ /\ driven = "book"
       /\ \/ /\ bookSeq < MaxUpdated
             /\ \E in \in UpdateBookInputs : BookCreateLock(p, in)
          \/ BookCreate(p)
          \/ \E in \in UpdateBookInputs, k \in 0..MaxUpdated :
               BookUpdateLock(p, in, k)
          \/ BookUpdate(p)

SpecUpdate == InitHold /\ [][NextUpdate]_vars

\* One caller registering, archiving and searching books.
SearchBookInputs ==
  {[title |-> <<"G", "o">>, author |-> <<"p">>, year |-> 2, isbn |-> <<"i">>,
    categoryTI |-> <<"w">>, tags |-> <<<<"T">>, <<"u">>>>],
   [title |-> <<"g", "o">>, author |-> <<"q">>, year |-> 3, isbn |-> <<"i">>,
    categoryTI |-> <<"W">>, tags |-> <<<<"t">>>>],
   [title |-> <<"C">>, author |-> <<"p">>, year |-> 3, isbn |-> <<"i">>,
    categoryTI |-> <<"x">>, tags |-> <<>>]}

FilterInputs ==
  {NoFilter,
   [NoFilter EXCEPT !.TitleContains = <<"g">>],
   [NoFilter EXCEPT !.TitleContains = <<"G", "O">>],
   [NoFilter EXCEPT !.AuthorContains = <<"P">>],
   [NoFilter EXCEPT !.CategoryTI = <<"W">>],
   [NoFilter EXCEPT !.TitleContains = <<"o">>, !.CategoryTI = <<"w">>, !.YearFrom = 3],
   [NoFilter EXCEPT !.YearFrom = 3],
   [NoFilter EXCEPT !.YearTo = 2],
   [NoFilter EXCEPT !.YearFrom = 0 - 1, !.YearTo = 0 - 1],
   [NoFilter EXCEPT !.YearFrom = 2, !.YearTo = 3],
   [NoFilter EXCEPT !.YearFrom = 3, !.YearTo = 2],
   [NoFilter EXCEPT !.Tags = <<<<"t">>>>],
   [NoFilter EXCEPT !.Tags = <<<<"T">>, <<"U">>>>],
   [NoFilter EXCEPT !.Tags = <<<<"t">>, <<"v">>>>]}

InitSearch == InitStores /\ driven = "book"

NextSearch ==
  \/ \E in \in SearchBookInputs : BookCreateLock(1, in)
  \/ BookCreate(1)
  \/ \E in \in SearchBookInputs, k \in 1..MaxSeq : BookUpdateLock(1, in, k)
  \/ BookUpdate(1)
  \/ \E k \in 1..MaxSeq : BookFindByIDLock(1, k)
  \/ BookFindByID(1)
  \/ BookArchive(1)
  \/ \E f \in FilterInputs : BookSearchLock(1, f)
  \/ BookSearch(1)

SpecSearch == InitSearch /\ [][NextSearch]_vars

\* One caller storing access events, listing them and counting them.
AccessBookInputs == {1, 2}
AccessUserInputs == {1, 2}
AccessKinds == {"LECTURA", "APERTURA"}

InitAccess == InitStores /\ driven = "access"

NextAccess ==
  \/ \E b \in AccessBookInputs, u \in AccessUserInputs, t \in AccessKinds :
       EventStoreLock(1, b, u, t)
  \/ \E k \in 1..MaxSeq : EventStoreStoredLock(1, k)
  \/ EventStore(1)
  \/ \E b \in AccessBookInputs : EventReadLock(1, "ListByBook", b)
  \/ EventListByBook(1)
  \/ \E u \in AccessUserInputs : EventReadLock(1, "ListByUser", u)
  \/ EventListByUser(1)
  \/ \E b \in AccessBookInputs : EventReadLock(1, "BuildAccessStatsByBook", b)
  \/ BuildAccessStatsByBook(1)

SpecAccess == InitAccess /\ [][NextAccess]_vars

\* Two clients of the services in any interleaving: both call RecordAccess, and
\* the writer also calls RegisterUser and RegisterBook (their Create) and
\* Update of a user and of a book. RegisterUser's FindByEmail only reads; its
\* Create is called here whatever that lookup would have returned.
Clients == {1, 2}
Writer == CHOOSE p \in Clients : \A q \in Clients : q <= p
RecordInputs ==
  {[bookID |-> 1, userID |-> 1, accessType |-> "LECTURA"],
   [bookID |-> 1, userID |-> 1, accessType |-> "X"],
   [bookID |-> 1, userID |-> 1, accessType |-> ""],
   [bookID |-> 2, userID |-> 1, accessType |-> "LECTURA"],
   [bookID |-> 1, userID |-> 2, accessType |-> "LECTURA"]}
ServiceUser == [name |-> <<"n">>, email |-> <<"a", "@">>, role |-> "ADMIN"]
ServiceBook ==
  [title |-> <<"G", "o">>, author |-> <<"p">>, year |-> 2, isbn |-> <<"i">>,
   categoryTI |-> <<"w">>, tags |-> <<>>]

InitService == InitStores /\ driven = "service"

NextService ==
  \/ /\ userSeq < MaxUpdated
     /\ UserCreateLock(Writer, ServiceUser.name, ServiceUser.email, ServiceUser.role)
  \/ UserCreate(Writer)
  \/ \E k \in DOMAIN users :
       UserUpdateLock(Writer, ServiceUser.name, ServiceUser.email, ServiceUser.role, k)
  \/ UserUpdate(Writer)
  \/ /\ bookSeq < MaxUpdated
     /\ BookCreateLock(Writer, ServiceBook)
  \/ BookCreate(Writer)
  \/ \E k \in DOMAIN books : BookUpdateLock(Writer, ServiceBook, k)
  \/ BookUpdate(Writer)
  \/ \E p \in Clients :
       \/ \E in \in RecordInputs :
            RecordAccessFindBook(p, in.bookID, in.userID, in.accessType)
       \/ RecordAccessFindUser(p)
       \/ RecordAccessStoreLock(p)
       \/ EventStore(p)

SpecService == InitService /\ [][NextService]_vars

\* A reader that lists, looks up and changes what it was handed, beside a
\* writer that creates, updates and lists.
ListRoles == {"READER", "SOLO_LECTURA"}
ListBook ==
  [title |-> <<"G", "o">>, author |-> <<"p">>, year |-> 2, isbn |-> <<"i">>,
   categoryTI |-> <<"w">>, tags |-> <<>>]

InitList == InitStores /\ driven \in {"user", "book"}

NextList ==
  \/ /\ driven = "user"
     /\ \/ /\ userSeq < MaxUpdated
           /\ UserCreateLock(2, <<"n">>, <<"a", "@">>, "ADMIN")
        \/ UserCreate(2)
        \/ \E k \in DOMAIN users :
             UserUpdateLock(2, <<"n">>, <<"b", "@">>, "ADMIN", k)
        \/ UserUpdate(2)
        \/ \E p \in {1, 2} : UserListAllLock(p) \/ UserListAll(p)
        \/ \E r \in ListRoles : UserChangeRole(1, 1, r)
        \/ UserDeactivate(1, 1)
        \/ CallerCutsList(1, "user")
        \/ \E k \in 1..MaxUpdated : UserFindByIDLock(1, k)
        \/ UserFindByID(1)
  \/ /\ driven = "book"
     /\ \/ /\ bookSeq < MaxUpdated
           /\ BookCreateLock(2, ListBook)
        \/ BookCreate(2)
        \/ \E k \in DOMAIN books : BookUpdateLock(2, ListBook, k)
        \/ BookUpdate(2)
        \/ \E p \in {1, 2} : BookListAllLock(p) \/ BookListAll(p)
        \/ BookArchiveListed(1, 1)
        \/ CallerCutsList(1, "book")
        \/ \E k \in 1..MaxUpdated : BookFindByIDLock(1, k)
        \/ BookFindByID(1)
        \/ BookSearchLock(1, NoFilter)
        \/ BookSearch(1)

SpecList == InitList /\ [][NextList]_vars

\* Every caller calls the writing operations and reading operations of one
\* repository; every reading operation takes the lock as these do.
InitLock == InitStores /\ driven \in Stores

NextLock ==
  \E p \in Procs :
    \/ /\ driven = "user"
       /\ \/ /\ userSeq < MaxUpdated
             /\ UserCreateLock(p, <<"n">>, <<"a", "@">>, "ADMIN")
          \/ UserCreate(p)
          \/ \E k \in DOMAIN users :
               UserUpdateLock(p, <<"n">>, <<"b", "@">>, "ADMIN", k)
          \/ UserUpdate(p)
          \/ UserFindByIDLock(p, 1)
          \/ UserFindByID(p)
          \/ UserFindByEmailLock(p, <<"a", "@">>)
          \/ UserFindByEmail(p)
    \/ /\ driven = "book"
       /\ \/ /\ bookSeq < MaxUpdated
             /\ BookCreateLock(p, ListBook)
          \/ BookCreate(p)
          \/ \E k \in DOMAIN books : BookUpdateLock(p, ListBook, k)
          \/ BookUpdate(p)
          \/ BookFindByIDLock(p, 1)
          \/ BookFindByID(p)
    \/ /\ driven = "access"
       /\ \/ /\ eventSeq < MaxUpdated
             /\ EventStoreLock(p, 1, 1, "LECTURA")
          \/ EventStore(p)
          \/ EventReadLock(p, "ListByBook", 1)
          \/ EventListByBook(p)

SpecLock == InitLock /\ [][NextLock]_vars

\* The clients of SpecService under fair scheduling, a reader of the access
\* log beside them. A RecordAccess is started only while the access log has
\* room for its event, so that the bound on the log stops no call half-way.
InRecordAccess ==
  {p \in Clients : \/ pc[p] \in {"ra_user", "ra_store"}
                   \/ pc[p] = "cs" /\ call[p].store = "access" /\ call[p].op = "Store"}

LiveInputs == {in \in RecordInputs : in.accessType = "LECTURA"}

NextLive ==
  \/ /\ userSeq < MaxUpdated
     /\ UserCreateLock(Writer, ServiceUser.name, ServiceUser.email, ServiceUser.role)
  \/ UserCreate(Writer)
  \/ /\ bookSeq < MaxUpdated
     /\ BookCreateLock(Writer, ServiceBook)
  \/ BookCreate(Writer)
  \/ \E k \in DOMAIN books : BookUpdateLock(Writer, ServiceBook, k)
  \/ BookUpdate(Writer)
  \/ \E p \in Clients :
       \/ /\ eventSeq + Cardinality(InRecordAccess) < MaxUpdated
          /\ \E in \in LiveInputs :
               RecordAccessFindBook(p, in.bookID, in.userID, in.accessType)
       \/ RecordAccessFindUser(p)
       \/ RecordAccessStoreLock(p)
       \/ EventStore(p)
       \/ EventReadLock(p, "BuildAccessStatsByBook", 1)
       \/ BuildAccessStatsByBook(p)

\* The step that ends the critical section caller p is in.
Leaves(p) ==
  \/ UserCreate(p)
  \/ BookCreate(p)
  \/ BookUpdate(p)
  \/ EventStore(p)
  \/ BuildAccessStatsByBook(p)

\* The step in which a RecordAccess of caller p gets the lock it waits for.
Acquires(p) == RecordAccessFindUser(p) \/ RecordAccessStoreLock(p)

\* A goroutine inside a critical section keeps running (weak fairness), and
\* one blocked in Lock or RLock gets the mutex if it is free again and again
\* (strong fairness: sync.RWMutex hands a released lock to the waiters).
Fairness ==
  \A p \in Clients : WF_vars(Leaves(p)) /\ SF_vars(Acquires(p))

SpecLive == InitService /\ [][NextLive]_vars /\ Fairness

\* Callers of RegisterUser in any interleaving, all with the emails of
\* RegisterEmails: the lookup of one call can fall between the lookup and the
\* Create of another.
RegisterEmails == {<<"a", "@">>, <<"b", "@">>}

InitRegister == InitStores /\ driven = "user"

NextRegister ==
  \E p \in Procs :
    \/ \E e \in RegisterEmails : RegisterUserFind(p, <<"n">>, e, "ADMIN")
    \/ RegisterUserCreateLock(p)
    \/ UserCreate(p)

SpecRegister == InitRegister /\ [][NextRegister]_vars

\* A caller that never calls SetID, one call at a time: what it passes to
\* Create, Store and Update is either fresh from a constructor (identifier 0)
\* or an entity the repository already holds.
StoredBook ==
  [title |-> <<"G", "o">>, author |-> <<"p">>, year |-> 2, isbn |-> <<"i">>,
   categoryTI |-> <<"w">>, tags |-> <<>>]

InitStored == InitStores /\ driven \in Stores

NextStored ==
  \E p \in {1} :
    \/ /\ driven = "user"
       /\ \/ \E e \in HoldEmails : UserCreateLock(p, <<"n">>, e, "ADMIN")
          \/ \E k \in DOMAIN users : UserCreateStoredLock(p, k)
          \/ UserCreate(p)
          \/ \E e \in HoldEmails : UserUpdateLock(p, <<"n">>, e, "ADMIN", 0)
          \/ \E k \in DOMAIN users : UserUpdateStoredLock(p, k)
          \/ UserUpdate(p)
    \/ /\ driven = "book"
       /\ \/ BookCreateLock(p, StoredBook)
          \/ \E k \in DOMAIN books : BookCreateStoredLock(p, k)
          \/ BookCreate(p)
          \/ BookUpdateLock(p, StoredBook, 0)
          \/ \E k \in DOMAIN books : BookUpdateStoredLock(p, k)
          \/ BookUpdate(p)
    \/ /\ driven = "access"
       /\ \/ EventStoreLock(p, 1, 1, "LECTURA")
          \/ \E k \in DOMAIN events : EventStoreStoredLock(p, k)
          \/ EventStore(p)

SpecStored == InitStored /\ [][NextStored]_vars

\* Clients of the three services whose calls can fail: RegisterUser with a
\* taken email or a blank name, RegisterBook with a year of 0, RecordAccess
\* with an unknown book, an unknown user or an empty access type.
CallNames == {<<"n">>, <<" ">>}
CallRecords ==
  {[bookID |-> 1, userID |-> 1, accessType |-> "LECTURA"],
   [bookID |-> 1, userID |-> 1, accessType |-> ""],
   [bookID |-> 2, userID |-> 1, accessType |-> "LECTURA"],
   [bookID |-> 1, userID |-> 2, accessType |-> "LECTURA"]}

NextCalls ==
  \E p \in Clients :
    \/ \E n \in CallNames : RegisterUserFind(p, n, <<"a", "@">>, "ADMIN")
    \/ RegisterUserCreateLock(p)
    \/ UserCreate(p)
    \/ /\ bookSeq < MaxUpdated
       /\ \E in \in BookInputs : RegisterBook(p, in)
    \/ BookCreate(p)
    \/ \E in \in CallRecords :
         RecordAccessFindBook(p, in.bookID, in.userID, in.accessType)
    \/ RecordAccessFindUser(p)
    \/ RecordAccessStoreLock(p)
    \/ EventStore(p)

SpecCalls == InitService /\ [][NextCalls]_vars

\* Callers that fill the repositories with Create and Store and read them with
\* every read operation, for identifiers, emails and filters that match and
\* that do not.
ReadFilters == {NoFilter, [NoFilter EXCEPT !.TitleContains = <<"x">>]}
ReadIDs == {1, MaxSeq + 1}
EventReads == {"ListByBook", "ListByUser", "BuildAccessStatsByBook"}

InitRead == InitStores /\ driven \in Stores

NextRead ==
  \E p \in Clients :
    \/ /\ driven = "user"
       /\ \/ \E e \in HoldEmails : UserCreateLock(p, <<"n">>, e, "ADMIN")
          \/ UserCreate(p)
          \/ \E k \in ReadIDs : UserFindByIDLock(p, k)
          \/ UserFindByID(p)
          \/ \E e \in HoldEmails : UserFindByEmailLock(p, e)
          \/ UserFindByEmail(p)
          \/ UserListAllLock(p)
          \/ UserListAll(p)
    \/ /\ driven = "book"
       /\ \/ BookCreateLock(p, StoredBook)
          \/ BookCreate(p)
          \/ \E k \in ReadIDs : BookFindByIDLock(p, k)
          \/ BookFindByID(p)
          \/ BookListAllLock(p)
          \/ BookListAll(p)
          \/ \E f \in ReadFilters : BookSearchLock(p, f)
          \/ BookSearch(p)
    \/ /\ driven = "access"
       /\ \/ EventStoreLock(p, 1, 1, "LECTURA")
          \/ EventStore(p)
          \/ \E o \in EventReads, k \in ReadIDs : EventReadLock(p, o, k)
          \/ EventListByBook(p)
          \/ EventListByUser(p)
          \/ BuildAccessStatsByBook(p)

SpecRead == InitRead /\ [][NextRead]_vars

\* The writer registers a user and a book, looks the book up and archives it,
\* lists the users and deactivates the one listed, at any moment of the
\* RecordAccess calls that both clients make for book 1 and user 1.
NextInactive ==
  \/ /\ userSeq < MaxUpdated
     /\ UserCreateLock(Writer, ServiceUser.name, ServiceUser.email, ServiceUser.role)
  \/ UserCreate(Writer)
  \/ /\ bookSeq < MaxUpdated
     /\ BookCreateLock(Writer, ServiceBook)
  \/ BookCreate(Writer)
  \/ BookFindByIDLock(Writer, 1)
  \/ BookFindByID(Writer)
  \/ BookArchive(Writer)
  \/ UserListAllLock(Writer)
  \/ UserListAll(Writer)
  \/ UserDeactivate(Writer, 1)
  \/ \E p \in Clients :
       \/ RecordAccessFindBook(p, 1, 1, "LECTURA")
       \/ RecordAccessFindUser(p)
       \/ RecordAccessStoreLock(p)
       \/ EventStore(p)

SpecInactive == InitService /\ [][NextInactive]_vars

\* The writer registers a user and a book; both clients record accesses of
\* book 1 and ask for the statistics of book 1 and of book MaxSeq + 1, which
\* no Create assigns.
StatsBooks == {1, MaxSeq + 1}

NextStats ==
  \/ /\ userSeq < MaxUpdated
     /\ UserCreateLock(Writer, ServiceUser.name, ServiceUser.email, ServiceUser.role)
  \/ UserCreate(Writer)
  \/ /\ bookSeq < MaxUpdated
     /\ BookCreateLock(Writer, ServiceBook)
  \/ BookCreate(Writer)
  \/ \E p \in Clients :
       \/ RecordAccessFindBook(p, 1, 1, "LECTURA")
       \/ RecordAccessFindUser(p)
       \/ RecordAccessStoreLock(p)
       \/ EventStore(p)
       \/ \E b \in StatsBooks : EventReadLock(p, "BuildAccessStatsByBook", b)
       \/ BuildAccessStatsByBook(p)

SpecStats == InitService /\ [][NextStats]_vars

\* The terminal program, either variant, through any sequence of menu actions.
CliNames == {<<"n">>, <<"N", " ">>, <<"m">>}
CliEmails == {<<"a", "@">>, <<" ", "A", "@">>, <<"b", "@">>}
CliUserInputs ==
  {[name |-> n, email |-> e, role |-> <<"a", "d", "m", "i", "n">>] :
     n \in CliNames, e \in CliEmails}
  \cup {[name |-> <<"m">>, email |-> <<"b", "@">>, role |-> <<"x">>],
        [name |-> <<"m">>, email |-> <<"b">>, role |-> CliRoleReader]}
CliYears == {<<"2">>, <<"x">>}
CliLectura == <<"l", "e", "c", "t", "u", "r", "a">>
CliAccessInputs ==
  {[user |-> <<"1">>, book |-> <<"1">>, type |-> CliLectura],
   [user |-> <<"-", "1">>, book |-> <<"1">>, type |-> CliLectura],
   [user |-> <<"1">>, book |-> <<"x">>, type |-> CliLectura],
   [user |-> <<"1">>, book |-> <<"1">>, type |-> <<"x">>]}
CliOptions == {"2"}

InitCli ==
  /\ domainV = 1
  /\ repoV = 1
  /\ driven = "cli"
  /\ EmptyStores
  /\ \E v \in CliVariants : cli = CliStart(v)

NextCli ==
  \/ \E in \in CliUserInputs : CliRegisterUser(in.name, in.email, in.role)
  \/ \E o \in CliOptions : CliShow(o)
  \/ \E y \in CliYears : CliRegisterBook(<<"G">>, y)
  \/ \E in \in CliAccessInputs : CliRegisterAccess(in.user, in.book, in.type)

SpecCli == InitCli /\ [][NextCli]_vars

\* ------------------------------------------------------------ claims
\* Caller p returns from operation o of repository s in this step.
Returns(p, s, o) ==
  /\ pc[p] = "cs"
  /\ pc'[p] = "idle"
  /\ call[p].store = s
  /\ call[p].op = o

\* Caller p is back from operation o of repository s.
Back(p, s, o) ==
  /\ pc[p] = "idle"
  /\ ret[p].done
  /\ call[p].store = s
  /\ call[p].op = o

MapOf(s) == IF s = "user" THEN users ELSE IF s = "book" THEN books ELSE events

Assigned(s) == {i \in 1..Len(createLog[s]) : createLog[s][i] # Pending}

\* C1: in every repository the identifiers assigned by Create/Store are
\* pairwise distinct, and a call that took the write lock later was assigned a
\* strictly larger identifier than every call that took it earlier; each
\* assigned identifier is a key of the map.
C1_IdsIncreaseInLockOrder ==
  \A s \in Stores :
    /\ \A i, j \in Assigned(s) : i < j => createLog[s][i] < createLog[s][j]
    /\ \A i \in Assigned(s) : createLog[s][i] \in DOMAIN MapOf(s)

\* Two different callers have each created an entity in the same repository.
C1_Witness ==
  \E s \in Stores :
    /\ createLog[s] = <<1, 2>>
    /\ \E p, q \in Procs :
         /\ p # q
         /\ Back(p, s, IF s = "access" THEN "Store" ELSE "Create")
         /\ Back(q, s, IF s = "access" THEN "Store" ELSE "Create")
         /\ ret[p].err = NilErr
         /\ ret[q].err = NilErr
         /\ call[p].slot = 1
         /\ call[q].slot = 2

\* The stored users: the entities the map holds.
StoredUsers == {users[k] : k \in DOMAIN users}

\* C2: a Create of a user whose email equals, ignoring case, the email of a
\* user already stored returns the duplicate error and stores nothing.
C2_CreateRejectsCaseVariant ==
  [][\A p \in Procs :
       (/\ Returns(p, "user", "Create")
        /\ \E o \in StoredUsers :
             EqualFold(userHeap[o].email, userHeap[call[p].ref].email))
       => (/\ ret'[p].err = ErrUserDuplicate
           /\ users' = users
           /\ emailIndex' = emailIndex)]_vars

\* C3: no two entries of the user map hold users whose emails are equal
\* ignoring case.
C3_EmailsUniqueIgnoringCase ==
  \A j, k \in DOMAIN users :
    j # k => ~EqualFold(userHeap[users[j]].email, userHeap[users[k]].email)

\* C4: an Update of a stored user whose new email is held in the index by a
\* different identifier fails with the duplicate error and leaves the map and
\* the index unchanged.
C4_UpdateRejectsTakenEmail ==
  [][\A p \in Procs :
       (/\ Returns(p, "user", "Update")
        /\ userHeap[call[p].ref].id \in DOMAIN users
        /\ userHeap[call[p].ref].email \in DOMAIN emailIndex
        /\ emailIndex[userHeap[call[p].ref].email] # userHeap[call[p].ref].id
        /\ emailIndex[userHeap[call[p].ref].email] \in DOMAIN users)
       => (/\ ret'[p].err = ErrUserDuplicate
           /\ users' = users
           /\ emailIndex' = emailIndex)]_vars

\* C5: a Create or Update that returns an error leaves the repository's map,
\* index, counter and entities as they were; the entity of a rejected Create
\* keeps the identifier it had and no identifier is consumed.
C5_ErrorLeavesStoreUnchanged ==
  [][\A p \in Procs :
       /\ (/\ \/ Returns(p, "user", "Create")
              \/ Returns(p, "user", "Update")
           /\ ret'[p].err # NilErr)
          => (/\ UNCHANGED <<users, emailIndex, userSeq, userHeap>>
              /\ call'[p].ref = call[p].ref
              /\ userHeap'[call'[p].ref].id = userHeap[call[p].ref].id)
       /\ (/\ \/ Returns(p, "book", "Create")
              \/ Returns(p, "book", "Update")
           /\ ret'[p].err # NilErr)
          => (/\ UNCHANGED <<books, bookSeq, bookHeap>>
              /\ call'[p].ref = call[p].ref
              /\ bookHeap'[call'[p].ref].id = bookHeap[call[p].ref].id)]_vars

\* A Create was rejected as a duplicate after an earlier one had succeeded:
\* the rejected user has no identifier and the counter still stands at one.
C5_Witness ==
  /\ Back(1, "user", "Create")
  /\ ret[1].err = ErrUserDuplicate
  /\ userHeap[call[1].ref].id = 0
  /\ userSeq = 1
  /\ DOMAIN users = {1}

\* The identifiers Create has assigned in repository s.
AssignedIDs(s) == {createLog[s][i] : i \in Assigned(s)}

NotFoundErrors ==
  {ErrUserNotFoundV1, ErrUserNotFoundV2, ErrBookNotFoundV1, ErrBookNotFoundV2}

UserMissingErr(id) ==
  IF repoV = 1 THEN ErrUserNotFoundV1
  ELSE IF id = 0 THEN ErrUserNoID ELSE ErrUserNotFoundV2

BookMissingErr(id) ==
  IF repoV = 1 THEN ErrBookNotFoundV1
  ELSE IF id = 0 THEN ErrBookNoID ELSE ErrBookNotFoundV2

C7_AbsentIsNotAnError ==
  [][\A p \in Procs :
       /\ Returns(p, "user", "FindByID")
          => /\ ret'[p].err = NilErr
             /\ call[p].id \notin DOMAIN users => ret'[p].val = NilRef
       /\ Returns(p, "book", "FindByID")
          => /\ ret'[p].err = NilErr
             /\ call[p].id \notin DOMAIN books => ret'[p].val = NilRef
       /\ Returns(p, "user", "FindByEmail")
          => /\ ret'[p].err = NilErr
             /\ (\A k \in DOMAIN emailIndex : ~EqualFold(k, call[p].email))
                  => ret'[p].val = NilRef]_vars

\* FindByID of an identifier the user map does not hold has come back, the
\* map holding another user.
C7_Witness ==
  /\ Back(1, "user", "FindByID")
  /\ users # EmptyMap
  /\ call[1].id \notin DOMAIN users
  /\ ret[1] = Returned(NilErr, NilRef)

\* Caller p came back from a successful Create and still holds its entity.
KeepsUser(p) == Back(p, "user", "Create") /\ ret[p].err = NilErr

KeepsBook(p) == Back(p, "book", "Create") /\ ret[p].err = NilErr

\* FindByID of the identifier the entity of caller p carries returns that
\* very entity.
FindsOwnUser(p) ==
  /\ userHeap[call[p].ref].id # 0
  /\ UserFindByIDResult(userHeap[call[p].ref].id) = Returned(NilErr, call[p].ref)

FindsOwnBook(p) ==
  /\ bookHeap[call[p].ref].id # 0
  /\ BookFindByIDResult(bookHeap[call[p].ref].id) = Returned(NilErr, call[p].ref)

\* Some caller's successful Update stores an entity under the identifier the
\* entity of caller p carries.
UserReplaced(p) ==
  \E q \in Procs :
    /\ Returns(q, "user", "Update")
    /\ ret'[q].err = NilErr
    /\ userHeap[call[q].ref].id = userHeap[call[p].ref].id

BookReplaced(p) ==
  \E q \in Procs :
    /\ Returns(q, "book", "Update")
    /\ ret'[q].err = NilErr
    /\ bookHeap[call[q].ref].id = bookHeap[call[p].ref].id

\* C8: a successful Create leaves the caller's entity with the identifier the
\* repository assigned, the counter's new value, and FindByID of the
\* identifier the entity carries returns that entity from then on, through
\* every step that is not a successful Update under that identifier.
C8_CreatedEntityIsFound ==
  [][\A p \in Procs :
       /\ (Returns(p, "user", "Create") /\ ret'[p].err = NilErr)
          => (/\ userSeq' = userSeq + 1
              /\ userHeap'[call'[p].ref].id = userSeq'
              /\ FindsOwnUser(p)')
       /\ (KeepsUser(p) /\ FindsOwnUser(p) /\ KeepsUser(p)' /\ ~UserReplaced(p))
          => FindsOwnUser(p)'
       /\ (Returns(p, "book", "Create") /\ ret'[p].err = NilErr)
          => (/\ bookSeq' = bookSeq + 1
              /\ bookHeap'[call'[p].ref].id = bookSeq'
              /\ FindsOwnBook(p)')
       /\ (KeepsBook(p) /\ FindsOwnBook(p) /\ KeepsBook(p)' /\ ~BookReplaced(p))
          => FindsOwnBook(p)']_vars

\* Caller 1 still finds the user it created after caller 2 has created a
\* second user and replaced that one by an Update.
C8_Witness ==
  /\ KeepsUser(1)
  /\ FindsOwnUser(1)
  /\ Back(2, "user", "Update")
  /\ ret[2].err = NilErr
  /\ userHeap[call[2].ref].id # userHeap[call[1].ref].id
  /\ userHeap[call[1].ref].id = 1

\* C9: FindByEmail returns a stored user for every query that equals that
\* user's email ignoring case, and no user for a query that equals no stored
\* user's email ignoring case.
C9_FindByEmailIgnoresCase ==
  [][\A p \in Procs :
       Returns(p, "user", "FindByEmail")
       => /\ \A o \in StoredUsers :
               EqualFold(call[p].email, userHeap[o].email)
               => ret'[p] = Returned(NilErr, o)
          /\ (\A o \in StoredUsers : ~EqualFold(call[p].email, userHeap[o].email))
               => ret'[p] = Returned(NilErr, NilRef)]_vars

\* C10: once a successful Update has changed the email of a stored user from
\* a to b, FindByEmail(b) returns the updated user and FindByEmail(a) returns
\* no user.
C10_UpdateMovesIndexEntry ==
  [][\A p \in Procs :
       (/\ Returns(p, "user", "Update")
        /\ ret'[p].err = NilErr
        /\ userHeap[call[p].ref].id \in DOMAIN users
        /\ userHeap[users[userHeap[call[p].ref].id]].email
             # userHeap[call[p].ref].email)
       => LET id == userHeap[call[p].ref].id
              a == userHeap[users[id]].email
              b == userHeap[call[p].ref].email
          IN /\ UserFindByEmailIn(emailIndex', users', b)
                  = Returned(NilErr, users'[id])
             /\ UserFindByEmailIn(emailIndex', users', a)
                  = Returned(NilErr, NilRef)]_vars

\* The caller whose Update of identifier i took the write lock of repository
\* s last has come back with success.
LastUpdateDone(s, i) ==
  /\ i \in DOMAIN lastUpdate[s]
  /\ Back(lastUpdate[s][i], s, "Update")
  /\ ret[lastUpdate[s][i]].err = NilErr

\* C11: a successful Update leaves its entity as the caller built it and
\* FindByID of the identifier it carries returns that entity, the previous one
\* being no longer stored under it; and whenever the Update of an identifier
\* that took the write lock last has returned, the map holds under that
\* identifier the entity of that very Update.
C11_UpdateReplacesLastWins ==
  /\ [][\A p \in Procs :
          /\ (Returns(p, "user", "Update") /\ ret'[p].err = NilErr)
             => (/\ userHeap'[call'[p].ref] = userHeap[call[p].ref]
                 /\ FindsOwnUser(p)')
          /\ (Returns(p, "book", "Update") /\ ret'[p].err = NilErr)
             => (/\ bookHeap'[call'[p].ref] = bookHeap[call[p].ref]
                 /\ FindsOwnBook(p)')]_vars
  /\ [](\A i \in IDInputs :
          /\ LastUpdateDone("user", i)
             => (i \in DOMAIN users /\ users[i] = call[lastUpdate["user"][i]].ref)
          /\ LastUpdateDone("book", i)
             => (i \in DOMAIN books /\ books[i] = call[lastUpdate["book"][i]].ref))

\* Two callers have updated book 1 with different values, caller 1 taking the
\* lock first: the map holds the entity of caller 2, with caller 2's year.
C11_Witness ==
  /\ Back(1, "book", "Update")
  /\ Back(2, "book", "Update")
  /\ ret[1].err = NilErr
  /\ ret[2].err = NilErr
  /\ bookHeap[call[1].ref].id = 1
  /\ bookHeap[call[1].ref].year = 2
  /\ bookHeap[call[2].ref].year = 3
  /\ LastUpdateDone("book", 1)
  /\ lastUpdate["book"][1] = 2
  /\ books[1] = call[2].ref
  /\ books[1] # call[1].ref

\* The entries of a slice.
ListSet(l) == {l[i] : i \in 1..Len(l)}

\* The books the map holds.
StoredBooks == {books[k] : k \in DOMAIN books}

\* sub occurs in s when letter case is disregarded.
ContainsIgnoringCase(s, sub) ==
  \E i \in 0..(Len(s) - Len(sub)) :
    \A j \in 1..Len(sub) : LowerCh(s[i + j]) = LowerCh(sub[j])

\* Book b has the year the filter asks for.
YearWanted(b, f) ==
  /\ f.YearFrom > 0 => b.year >= f.YearFrom
  /\ f.YearTo > 0 => b.year <= f.YearTo

\* Book b satisfies the title, author, category and year fields set in f.
Wanted(b, f) ==
  /\ f.TitleContains # <<>> => ContainsIgnoringCase(b.title, f.TitleContains)
  /\ f.AuthorContains # <<>> => ContainsIgnoringCase(b.author, f.AuthorContains)
  /\ f.CategoryTI # <<>>
       => (/\ Len(b.categoryTI) = Len(f.CategoryTI)
           /\ ContainsIgnoringCase(b.categoryTI, f.CategoryTI))
  /\ YearWanted(b, f)

\* Book b carries every tag of the filter, letter case disregarded.
HasEveryTag(b, f) ==
  \A j \in 1..Len(f.Tags) :
    \E i \in 1..Len(b.tags) :
      /\ Len(b.tags[i]) = Len(f.Tags[j])
      /\ ContainsIgnoringCase(b.tags[i], f.Tags[j])

C13_SearchRequiresEveryTag ==
  [][\A p \in Procs :
       (Returns(p, "book", "SearchByFilters") /\ call[p].filter.Tags # <<>>)
       => ListSet(ret'[p].list)
            = {o \in StoredBooks :
                 /\ bookHeap[o].active
                 /\ Wanted(bookHeap[o], call[p].filter)
                 /\ HasEveryTag(bookHeap[o], call[p].filter)}]_vars

\* Some caller's successful Update stores a book under identifier k.
BookOverwritten(k) ==
  \E q \in Procs :
    /\ Returns(q, "book", "Update")
    /\ ret'[q].err = NilErr
    /\ bookHeap[call[q].ref].id = k

\* C14: no book of a SearchByFilters result has its active flag false, for
\* any filter; and a stored book whose flag is false keeps it false through
\* every step, an Update that stores another book under its identifier apart.
C14_ArchivedNeverFound ==
  [][/\ \A p \in Procs :
          Returns(p, "book", "SearchByFilters")
          => \A o \in ListSet(ret'[p].list) : bookHeap'[o].active
     /\ \A k \in DOMAIN books :
          (~bookHeap[books[k]].active /\ ~BookOverwritten(k))
          => ~bookHeap'[books'[k]].active]_vars

\* A search with no field set has returned one book while the map holds two,
\* the other one archived.
C14_Witness ==
  /\ Back(1, "book", "SearchByFilters")
  /\ call[1].filter = NoFilter
  /\ Len(ret[1].list) = 1
  /\ DOMAIN books = {1, 2}
  /\ \E k \in DOMAIN books :
       ~bookHeap[books[k]].active /\ books[k] \notin ListSet(ret[1].list)

\* C15: no book of a SearchByFilters result has a year below a YearFrom above
\* zero or above a YearTo above zero; a filter that sets nothing but year
\* bounds returns exactly the active books within them, the bounds included,
\* a bound of zero or less excluding nothing; YearFrom > YearTo > 0 returns
\* nothing.
C15_SearchYearBounds ==
  [][\A p \in Procs :
       Returns(p, "book", "SearchByFilters")
       => LET f == call[p].filter
              found == ListSet(ret'[p].list)
          IN /\ \A o \in found : YearWanted(bookHeap[o], f)
             /\ f = [NoFilter EXCEPT !.YearFrom = f.YearFrom, !.YearTo = f.YearTo]
                  => found = {o \in StoredBooks :
                                bookHeap[o].active /\ YearWanted(bookHeap[o], f)}
             /\ (f.YearFrom <= 0 /\ f.YearTo <= 0 /\ f = [NoFilter EXCEPT
                     !.YearFrom = f.YearFrom, !.YearTo = f.YearTo])
                  => found = {o \in StoredBooks : bookHeap[o].active}
             /\ (f.YearFrom > f.YearTo /\ f.YearTo > 0) => found = {}]_vars

\* A search for the years 2 to 3 has returned a book of year 2 and a book of
\* year 3.
C15_Witness ==
  /\ Back(1, "book", "SearchByFilters")
  /\ call[1].filter = [NoFilter EXCEPT !.YearFrom = 2, !.YearTo = 3]
  /\ {bookHeap[o].year : o \in ListSet(ret[1].list)} = {2, 3}

\* The keys under which the access log holds an event of book b with type t,
\* and the keys under which it holds an event of book b.
EventsOf(b, t) ==
  {k \in DOMAIN events :
     /\ eventHeap[events[k]].bookID = b
     /\ eventHeap[events[k]].accessType = t}

EventsOfBook(b) == {k \in DOMAIN events : eventHeap[events[k]].bookID = b}

\* The sum of the counts of a statistics map.
RECURSIVE SumOver(_, _)
SumOver(st, S) ==
  IF S = {} THEN 0
  ELSE LET t == CHOOSE x \in S : TRUE IN st[t] + SumOver(st, S \ {t})

\* The count a statistics map gives for type t.
StatOf(st, t) == IF t \in DOMAIN st THEN st[t] ELSE 0

\* The access types stored events carry.
StoredTypes == {eventHeap[events[k]].accessType : k \in DOMAIN events}

\* C16: the map BuildAccessStatsByBook(b) returns gives each access type
\* exactly the number of stored events of book b with that type, has no key
\* for a type without such an event, and its counts add up to the number of
\* stored events of book b; events of other books contribute nothing.
C16_StatsCountEventsOfTheBook ==
  [][\A p \in Procs :
       Returns(p, "access", "BuildAccessStatsByBook") =>
         LET st == ret'[p].stats
             b == call[p].id
         IN /\ ret'[p].err = NilErr
            /\ DOMAIN st = {t \in StoredTypes : EventsOf(b, t) # {}}
            /\ \A t \in StoredTypes \cup DOMAIN st :
                 StatOf(st, t) = Cardinality(EventsOf(b, t))
            /\ SumOver(st, DOMAIN st) = Cardinality(EventsOfBook(b))]_vars

\* Statistics of book 1 were returned with one event counted while the log
\* also holds an event of book 2.
C16_Witness ==
  /\ Back(1, "access", "BuildAccessStatsByBook")
  /\ call[1].id = 1
  /\ SumOver(ret[1].stats, DOMAIN ret[1].stats) = 1
  /\ EventsOfBook(2) # {}

\* C17: for every book and access type the count BuildAccessStatsByBook would
\* return never decreases; a step that completes a Store of an event of that
\* book and type raises it by exactly one, and no other step changes it.
C17_StatsGrowByOnePerStore ==
  [][\A b \in AccessBookInputs, t \in AccessKinds :
       \A st \in BuildAccessStatsByBookIn(events, eventHeap, b),
          nx \in BuildAccessStatsByBookIn(events', eventHeap', b) :
         /\ StatOf(nx, t) >= StatOf(st, t)
         /\ IF \E p \in Procs :
                 /\ Returns(p, "access", "Store")
                 /\ ret'[p].err = NilErr
                 /\ eventHeap[call[p].ref].bookID = b
                 /\ eventHeap[call[p].ref].accessType = t
            THEN StatOf(nx, t) = StatOf(st, t) + 1
            ELSE StatOf(nx, t) = StatOf(st, t)]_vars

\* Statistics were returned that count two stored events of one type.
C17_Witness ==
  /\ Back(1, "access", "BuildAccessStatsByBook")
  /\ \E t \in DOMAIN ret[1].stats : ret[1].stats[t] = 2

\* The fields of an event that C20 speaks of.
EventFields(e) ==
  [bookID |-> e.bookID, userID |-> e.userID, accessType |-> e.accessType]

\* C20: an event stored under an identifier stays stored under it with the
\* same book, user and access type at every step, and ListByBook of its book
\* and ListByUser of its user keep returning it with those fields.
C20_StoredEventsAreImmutable ==
  [][\A i \in DOMAIN events :
       LET e == eventHeap[events[i]]
       IN /\ i \in DOMAIN events'
          /\ EventFields(eventHeap'[events'[i]]) = EventFields(e)
          /\ \A l \in ListByBookIn(events', eventHeap', e.bookID) :
               events'[i] \in ListSet(l)
          /\ \A l \in ListByUserIn(events', eventHeap', e.userID) :
               events'[i] \in ListSet(l)]_vars

\* ListByBook returned an event that was stored a second time after its first
\* Store.
C20_Witness ==
  /\ Back(1, "access", "ListByBook")
  /\ 1 \in DOMAIN events
  /\ 2 \in DOMAIN events
  /\ events[1] = events[2]
  /\ events[1] \in ListSet(ret[1].list)

\* Client p takes a step.
Acts(p) == pc'[p] # pc[p] \/ call'[p] # call[p] \/ ret'[p] # ret[p]

\* Client p ends a RecordAccess with an error and nothing is stored.
RecordAccessRefused(p) ==
  /\ pc'[p] = "idle"
  /\ ret'[p].done
  /\ ret'[p].err # NilErr
  /\ eventVars' = eventVars

\* C18: every stored access event has a book identifier that is a key of the
\* book repository and a user identifier that is a key of the user repository,
\* whatever the interleaving of the clients; the step of RecordAccess that
\* looks up a book or a user that is not stored ends the call with an error
\* and stores nothing.
C18_EventsReferToStoredBookAndUser ==
  /\ [](\A k \in DOMAIN events :
          /\ eventHeap[events[k]].bookID \in DOMAIN books
          /\ eventHeap[events[k]].userID \in DOMAIN users)
  /\ [][\A p \in Clients :
          /\ ( /\ pc[p] = "idle"
               /\ Acts(p)
               /\ call'[p].op = "RecordAccess"
               /\ call'[p].id \notin DOMAIN books ) => RecordAccessRefused(p)
          /\ ( /\ pc[p] = "ra_user"
               /\ Acts(p)
               /\ call[p].userID \notin DOMAIN users ) => RecordAccessRefused(p)]_vars

\* An event of book 1 and user 1 is stored and a RecordAccess naming user 2,
\* who is not stored, has ended with the error of the user lookup.
C18_Witness ==
  /\ DOMAIN events # {}
  /\ 2 \notin DOMAIN users
  /\ \E p \in Clients :
       /\ pc[p] = "idle"
       /\ call[p].op = "RecordAccess"
       /\ call[p].userID = 2
       /\ ret[p].err = ErrUsuarioNoEncontrado

\* The access types the domain package enumerates.
AccessTypes == {"APERTURA", "LECTURA", "DESCARGA"}

\* C19: every stored access event has one of the three enumerated access
\* types, and a RecordAccess with any other access type ends with an error
\* and stores nothing.
C19_StoredTypesAreEnumerated ==
  /\ [](\A k \in DOMAIN events : eventHeap[events[k]].accessType \in AccessTypes)
  /\ [][\A p \in Clients :
          ( /\ pc[p] = "ra_user"
            /\ Acts(p)
            /\ call[p].accessType \notin AccessTypes ) => RecordAccessRefused(p)]_vars

HeapOf(s) == IF s = "user" THEN userHeap ELSE IF s = "book" THEN bookHeap ELSE eventHeap

\* The field values of the entity stored under each key of repository s.
StoredValues(s) == [k \in DOMAIN MapOf(s) |-> HeapOf(s)[MapOf(s)[k]]]

\* A Create or an Update of repository s returns without an error.
WriteSucceeds(s) ==
  \E p \in Procs :
    /\ Returns(p, s, "Create") \/ Returns(p, s, "Update")
    /\ ret'[p].err = NilErr

\* A step of a repository operation, as opposed to a step a caller takes on
\* what it was handed.
RepositoryStep == pc' # pc

\* C21: ListAll returns one entry for each key of the map, the stored
\* pointers in some order; between two ListAll calls the pointers under the
\* keys stay the same through every step but a successful Create or Update, and
\* the field values of the stored entities stay the same through every
\* repository step but those, so two calls with no Create or Update in between
\* return the same number of entries and the same entities with the same
\* field values.
C21_ListAllIsRepeatable ==
  [][\A s \in {"user", "book"} :
       /\ \A p \in Procs :
            Returns(p, s, "ListAll") =>
              /\ ret'[p].err = NilErr
              /\ Len(ret'[p].list) = Cardinality(DOMAIN MapOf(s))
              /\ \A k \in DOMAIN MapOf(s) :
                   Cardinality({i \in 1..Len(ret'[p].list) :
                                  ret'[p].list[i] = MapOf(s)[k]})
                     = Cardinality(KeysOf(MapOf(s)[k], MapOf(s)))
       /\ ~WriteSucceeds(s) => MapOf(s)' = MapOf(s)
       /\ (RepositoryStep /\ ~WriteSucceeds(s)) =>
            StoredValues(s)' = StoredValues(s)]_vars

\* Both callers are back from ListAll of the same repository with the same
\* entries.
C21_Witness ==
  \E s \in {"user", "book"} :
    /\ Back(1, s, "ListAll")
    /\ Back(2, s, "ListAll")
    /\ ret[1].list # <<>>
    /\ Len(ret[1].list) = Len(ret[2].list)
    /\ ListSet(ret[1].list) = ListSet(ret[2].list)

\* The field values of the entries of the slice caller p holds.
ListValues(p, s) == [i \in 1..Len(ret[p].list) |-> HeapOf(s)[ret[p].list[i]]]

\* C22: ListAll returns a defensive copy: each stored entity is in the
\* returned slice exactly once; a slice a caller holds, and the entities in
\* it, are as they were after every Create and Update of another caller; and
\* what a caller does to its slice or to the entities in it changes neither
\* the stored entities FindByID and ListAll return nor the results of
\* SearchByFilters.
C22_ListAllIsDefensiveCopy ==
  [][\A s \in {"user", "book"} :
       /\ \A p \in Procs :
            Returns(p, s, "ListAll") =>
              /\ ListSet(ret'[p].list) = MapValues(MapOf(s))
              /\ \A i, j \in 1..Len(ret'[p].list) :
                   ret'[p].list[i] = ret'[p].list[j] => i = j
       /\ \A p \in Procs :
            (HoldsList(p, s) /\ call[p].op = "ListAll" /\ ~Acts(p) /\ RepositoryStep) =>
              /\ ret'[p].list = ret[p].list
              /\ ListValues(p, s)' = ListValues(p, s)
       /\ ~RepositoryStep =>
            /\ MapOf(s)' = MapOf(s)
            /\ StoredValues(s)' = StoredValues(s)
            /\ s = "book" =>
                 SearchByFiltersResults(NoFilter)' = SearchByFiltersResults(NoFilter)]_vars

WriteOps == {"Create", "Update", "Store"}

\* The callers inside the critical section of repository s with a writing and
\* with a reading operation.
WritersIn(s) ==
  {p \in Procs : pc[p] = "cs" /\ call[p].store = s /\ call[p].op \in WriteOps}

ReadersIn(s) ==
  {p \in Procs : pc[p] = "cs" /\ call[p].store = s /\ call[p].op \notin WriteOps}

\* C23: in each repository at most one writing operation (Create, Update,
\* Store) is inside the critical section at any time, and none is inside
\* together with a reading operation.
C23_WritersAreAlone ==
  \A s \in Stores :
    /\ Cardinality(WritersIn(s)) <= 1
    /\ WritersIn(s) # {} => ReadersIn(s) = {}
    /\ WritersIn(s) = IF mu[s].w = 0 THEN {} ELSE {mu[s].w}
    /\ ReadersIn(s) = mu[s].r

\* Two reading operations are inside the critical section of one repository
\* together.
C23_Witness ==
  \E s \in Stores : Cardinality(ReadersIn(s)) >= 2

\* The locks caller p holds.
LocksHeld(p) == {s \in Stores : mu[s].w = p \/ p \in mu[s].r}

SeqOf(s) == IF s = "user" THEN userSeq ELSE IF s = "book" THEN bookSeq ELSE eventSeq

\* C25: in the user and in the book repository the identifiers Create has
\* assigned are 1, 2, ... in the order of the calls, each the one before plus
\* one; the keys of the map are exactly 1..n, n being the number of successful
\* Creates, and n is the value of the sequence counter.
C25_KeysAreOneToSeq ==
  \A s \in {"user", "book"} :
    /\ \A i \in Assigned(s) : createLog[s][i] = Cardinality({j \in Assigned(s) : j <= i})
    /\ DOMAIN MapOf(s) = 1..Cardinality(Assigned(s))
    /\ SeqOf(s) = Cardinality(Assigned(s))

\* Two Creates have succeeded and a caller is back from a successful one.
C25_Witness ==
  \E s \in {"user", "book"} :
    /\ SeqOf(s) = 2
    /\ DOMAIN MapOf(s) = {1, 2}
    /\ \E p \in Procs : Back(p, s, "Create") /\ ret[p].err = NilErr

StoredWithEmail(e) == {k \in DOMAIN users : userHeap[users[k]].email = e}

\* Caller p is back from the Create of a RegisterUser call for email e.
RegisterCreateBack(p, e) ==
  /\ Back(p, "user", "Create")
  /\ userHeap[call[p].ref].email = e

\* Caller p is back from a RegisterUser call for email e that ended at its lookup.
RegisterFindBack(p, e) ==
  /\ Back(p, "user", "RegisterUser")
  /\ call[p].email = e

\* C26: of the RegisterUser calls for one email, concurrent or not, one
\* succeeds and every other returns an error: Create succeeds exactly when no
\* user with that email is stored at the moment it holds the write lock, a
\* lookup that finds the email ends the call with an error, every user stored
\* stems from one successful call, and once a call for the email has returned
\* exactly one user with that email is stored.
C26_OneRegistrationPerEmail ==
  /\ [](/\ \A e \in RegisterEmails :
             /\ Cardinality(StoredWithEmail(e)) <= 1
             /\ Cardinality({p \in Procs : RegisterCreateBack(p, e)
                                           /\ ret[p].err = NilErr}) <= 1
             /\ \A p \in Procs :
                  /\ RegisterCreateBack(p, e) \/ RegisterFindBack(p, e)
                       => Cardinality(StoredWithEmail(e)) = 1
                  /\ RegisterCreateBack(p, e) /\ ret[p].err # NilErr
                       => ret[p].err = ErrUserDuplicate
                  /\ RegisterFindBack(p, e) => ret[p].err = ErrYaExiste
        /\ Cardinality(DOMAIN users) = Cardinality(Assigned("user")))
  /\ [][\A p \in Procs :
          /\ ( /\ pc[p] = "cs"
               /\ pc'[p] = "idle"
               /\ call[p].op = "Create" )
             => LET e == userHeap[call[p].ref].email
                IN /\ (ret'[p].err = NilErr) <=> (StoredWithEmail(e) = {})
                   /\ Cardinality({k \in DOMAIN users' :
                                     userHeap'[users'[k]].email = e}) = 1
          /\ ( /\ pc[p] = "idle"
               /\ pc'[p] = "idle"
               /\ call'[p].op = "RegisterUser"
               /\ ret'[p].done
               /\ call'[p] # call[p] \/ ret'[p] # ret[p] )
             => /\ ret'[p].err # NilErr
                /\ users' = users ]_vars

\* Two callers looked the same email up before either had stored it; one
\* Create succeeded and the other was rejected as a duplicate.
C26_Witness ==
  \E p, q \in Procs :
    /\ p # q
    /\ \E e \in RegisterEmails :
         /\ RegisterCreateBack(p, e)
         /\ RegisterCreateBack(q, e)
         /\ ret[p].err = NilErr
         /\ ret[q].err = ErrUserDuplicate
         /\ Cardinality(StoredWithEmail(e)) = 1

\* C27: no step of a repository removes an entity: the keys of the user map,
\* of the book map and of the event map only grow, and a FindByID that returns
\* a user or a book for an identifier returns one for it after every later step.
C27_StoresOnlyGrow ==
  [][/\ DOMAIN users \subseteq DOMAIN users'
     /\ DOMAIN books \subseteq DOMAIN books'
     /\ DOMAIN events \subseteq DOMAIN events'
     /\ \A k \in IDInputs :
          /\ UserFindByIDIn(users, k).val # NilRef
               => /\ UserFindByIDIn(users', k).val # NilRef
                  /\ UserFindByIDIn(users', k).err = NilErr
          /\ BookFindByIDIn(books, k).val # NilRef
               => /\ BookFindByIDIn(books', k).val # NilRef
                  /\ BookFindByIDIn(books', k).err = NilErr]_vars

\* FindByID hands out the entity of identifier 1 after a later Create has
\* stored a second one.
C27_Witness ==
  \E s \in {"user", "book"} :
    \E p \in Procs :
      /\ Back(p, s, "FindByID")
      /\ call[p].id = 1
      /\ ret[p].val # NilRef
      /\ ret[p].err = NilErr
      /\ DOMAIN MapOf(s) = {1, 2}

\* C29 as stated: the email index and the user map agree: every entry of
\* emailIndex names a stored user whose email is the entry's key, and every
\* stored user has an entry under its email that names its own identifier.
C29_IndexAgreesWithUsers ==
  /\ \A e \in DOMAIN emailIndex :
       /\ emailIndex[e] \in DOMAIN users
       /\ userHeap[users[emailIndex[e]]].email = e
  /\ \A k \in DOMAIN users :
       /\ userHeap[users[k]].email \in DOMAIN emailIndex
       /\ emailIndex[userHeap[users[k]].email] = k

\* C30 as stated: in every repository the entity stored under key k reports
\* identifier k, whatever fresh or stored entities callers that never call
\* SetID pass to Create, Store and Update.
C30_StoredEntityReportsItsKey ==
  \A s \in Stores :
    \A k \in DOMAIN MapOf(s) : HeapOf(s)[MapOf(s)[k]].id = k

\* What the three repositories hold: maps, stored field values, index, counters.
StoreState ==
  <<userSeq, users, emailIndex, bookSeq, books, eventSeq, events,
    StoredValues("user"), StoredValues("book"), StoredValues("access")>>

\* Caller p's call returns in this step.
ReturnsNow(p) ==
  /\ pc'[p] = "idle"
  /\ ret'[p].done
  /\ pc[p] # "idle" \/ call'[p] # call[p] \/ ret'[p] # ret[p]

\* C31: a RegisterUser, RegisterBook or RecordAccess call that returns an error
\* leaves the maps, the stored entities, the email index and the counters of
\* all three repositories as they were: the step in which a call returns an
\* error changes none of them, and every step that changes one of them is the
\* return of a call without error.
C31_FailedCallsChangeNothing ==
  [][/\ \A p \in Clients :
          ReturnsNow(p) /\ ret'[p].err # NilErr => StoreState' = StoreState
     /\ StoreState' # StoreState
          => \E p \in Clients : ReturnsNow(p) /\ ret'[p].err = NilErr]_vars

\* Each kind of failed call has returned beside stored entities: a duplicate
\* email found by Create itself, and an unknown user in RecordAccess.
C31_Witness ==
  \E p, q \in Clients :
    /\ Back(p, "user", "Create")
    /\ ret[p].err = ErrUserDuplicate
    /\ Back(q, "service", "RecordAccess")
    /\ ret[q].err = ErrUsuarioNoEncontrado
    /\ DOMAIN users # {}
    /\ DOMAIN books # {}

\* Caller p's Update of repository s returns without error in this step.
UpdateSucceeds(p, s) ==
  /\ pc[p] = "cs"
  /\ call[p].store = s
  /\ call[p].op = "Update"
  /\ pc'[p] = "idle"
  /\ ret'[p].err = NilErr

IndexKeysChanged ==
  {e \in DOMAIN emailIndex \cup DOMAIN emailIndex' :
     \/ e \notin DOMAIN emailIndex
     \/ e \notin DOMAIN emailIndex'
     \/ emailIndex'[e] # emailIndex[e]}

ReadOps ==
  {"FindByID", "FindByEmail", "ListAll", "SearchByFilters", "ListByBook",
   "ListByUser", "BuildAccessStatsByBook"}

\* C33: no step of a read operation, from taking the read lock to returning,
\* changes a map, a stored entity, the email index or a counter of any
\* repository, whether the operation finds something or not.
C33_ReadsChangeNothing ==
  [][\A p \in Procs :
       pc'[p] # pc[p] /\ call'[p].op \in ReadOps => StoreState' = StoreState]_vars

\* Reads that found nothing and reads that found something have returned
\* beside a repository that holds an entity.
C33_Witness ==
  \E p, q \in Clients :
    /\ pc[p] = "idle" /\ ret[p].done /\ call[p].op \in ReadOps
    /\ pc[q] = "idle" /\ ret[q].done /\ call[q].op \in ReadOps
    /\ ret[p].val = NilRef /\ ret[p].list = <<>> /\ ret[p].stats = <<>>
    /\ ret[q].val # NilRef \/ ret[q].list # <<>> \/ ret[q].stats # <<>>
    /\ \E s \in Stores : DOMAIN MapOf(s) # {}

\* C34: RecordAccess looks only at whether the book and the user exist: its
\* book lookup passes exactly when the identifier is a key of the book map, its
\* user lookup exactly when the identifier is a key of the user map, and its
\* Store returns no error and adds the event of that book and user, whatever
\* the active flags of the book and the user are at any of these steps.
C34_RecordAccessIgnoresActive ==
  [][\A p \in Clients :
       /\ ( /\ pc[p] = "idle"
            /\ pc'[p] # "cs"
            /\ call'[p].op = "RecordAccess"
            /\ call'[p] # call[p] \/ ret'[p] # ret[p] \/ pc'[p] # pc[p] )
          => (pc'[p] = "ra_user" <=> call'[p].id \in DOMAIN books)
       /\ ( pc[p] = "ra_user" /\ pc'[p] # "ra_user" )
          => (pc'[p] = "ra_store" <=> call[p].userID \in DOMAIN users)
       /\ ( /\ pc[p] = "cs"
            /\ call[p].op = "Store"
            /\ pc'[p] = "idle" )
          => /\ ret'[p].err = NilErr
             /\ DOMAIN events' = DOMAIN events \cup {eventSeq'}
             /\ eventSeq' \notin DOMAIN events
             /\ eventHeap'[events'[eventSeq']].bookID = 1
             /\ eventHeap'[events'[eventSeq']].userID = 1]_vars

\* The writer archived the book and deactivated the user and then called
\* RecordAccess itself: the event is stored and no error returned.
C34_Witness ==
  /\ Back(Writer, "access", "Store")
  /\ ret[Writer].err = NilErr
  /\ 1 \in DOMAIN books /\ ~bookHeap[books[1]].active
  /\ 1 \in DOMAIN users /\ ~userHeap[users[1]].active
  /\ DOMAIN events # {}

\* C35: BuildAccessStatsByBook of a book without stored events, in the book
\* repository or not, returns an empty map and no error; from its lock step
\* to its return it takes no lock of the book repository and returns no error
\* for any identifier, so the book repository has no part in its result.
C35_StatsOfUnknownBookAreEmpty ==
  [][\A p \in Clients :
       /\ ( /\ pc'[p] # pc[p]
            /\ call'[p].op = "BuildAccessStatsByBook" )
          => /\ mu'["book"] = mu["book"]
             /\ mu'["user"] = mu["user"]
             /\ StoreState' = StoreState
       /\ Returns(p, "access", "BuildAccessStatsByBook")
          => /\ ret'[p].err = NilErr
             /\ ret'[p].stats \in BuildAccessStatsByBookIn(events, eventHeap, call[p].id)
             /\ EventsOfBook(call[p].id) = {} => DOMAIN ret'[p].stats = {}]_vars

\* Statistics came back empty for a book that is not in the book repository
\* and for a stored book without events.
C35_Witness ==
  \E p, q \in Clients :
    /\ Back(p, "access", "BuildAccessStatsByBook")
    /\ call[p].id \notin DOMAIN books
    /\ DOMAIN ret[p].stats = {}
    /\ ret[p].err = NilErr
    /\ Back(q, "access", "BuildAccessStatsByBook")
    /\ call[q].id \in DOMAIN books
    /\ EventsOfBook(call[q].id) = {}
    /\ DOMAIN ret[q].stats = {}

CliRejections ==
  {"Email invalido. Debe contener '@'.", "Rol invalido. Debe ser ADMIN o READER.",
   "Ya existe un usuario con ese email.", "Ya existe un usuario con ese nombre."}

\* C36: in the terminal program no two registered users have emails equal
\* ignoring case, nor, in the variant that compares names, names equal
\* ignoring case; the user in place i of the slice has ID i; a registration
\* that is rejected leaves the slice as it was, and every other menu action
\* leaves it as it was or appends one user to it.
C36_CliUsersAreUnique ==
  /\ [](\A i, j \in 1..Len(cli.users) :
          /\ cli.users[i].ID = i
          /\ i # j =>
               /\ ~EqualFold(cli.users[i].Email, cli.users[j].Email)
               /\ cli.v = 1 => ~EqualFold(cli.users[i].Name, cli.users[j].Name))
  /\ [][/\ cli'.out \in CliRejections => cli'.users = cli.users
        /\ \/ cli'.users = cli.users
           \/ /\ Len(cli'.users) = Len(cli.users) + 1
              /\ SubSeq(cli'.users, 1, Len(cli.users)) = cli.users]_vars

\* Two users are registered, an access of one of them is recorded, and the
\* last registration was turned down for its name.
C36_Witness ==
  /\ cli.v = 1
  /\ Len(cli.users) = 2
  /\ Len(cli.accessEvents) = 1
  /\ cli.out = "Ya existe un usuario con ese nombre."

====
